---------------------------- MODULE Spec2Model ----------------------------
(***************************************************************************)
(* Model of the EduScribe real-time audio-to-notes pipeline                *)
(* (backend/optimized_main.py): one lecture id, its WebSocket handlers     *)
(* (websocket_endpoint), its background workers (process_lecture_audio),   *)
(* the chunk upload endpoint and the synthesis pass (synthesize_notes).    *)
(* Every action is one run of a coroutine between two suspension points    *)
(* of the asyncio event loop.                                              *)
(***************************************************************************)
EXTENDS Integers, Sequences, FiniteSets, TLC

\* ---------------------------------------------------------------- bounds
MaxInputs == 5      \* inputs of the environment in one run: connections,
                    \* disconnections, uploads, commands, clock advances
MaxDeepInputs == 6  \* the same, in the runs of connections and uploads only
MaxConns == 3       \* WebSocket connections ever opened for the lecture
MaxChunks == 4      \* audio chunks ever uploaded
MaxCmds == 3        \* start_recording / stop_recording commands ever received
MaxTicks == 1       \* clock advances
TickSeconds == 60   \* seconds per clock advance
StartTime == 100    \* time.time() when the process starts
MaxRealInputs == 6  \* real_main: inputs of the environment in one run
MaxRealConns == 2   \* real_main: WebSocket connections ever opened
MaxRealChunks == 3  \* real_main: audio chunks ever uploaded
MaxRealWorkers == 2 \* real_main: queue workers ever created
MaxRealTicks == 1   \* real_main: clock advances
MaxLiveInputs == 5  \* live_recording: inputs of the environment in one run
MaxLiveConns == 2   \* live_recording: WebSocket connections ever opened
MaxLiveChunks == 2  \* live_recording: audio chunks ever uploaded
MaxLines == 3       \* lines of a transcript
MaxSentences == 2   \* sentences of a line
MaxNotes == 6       \* raw notes handed to generate_structured_notes
MaxIndexed == 6     \* chunks of the lecture's store a synthesis pass queries
MaxStored == 2      \* chunks of a lecture's chunk store
TopK == 2           \* top_k of a query
MaxLoopInputs == 4  \* event loop: commands the client sends in one run
MaxLoopChunks == 3  \* event loop: chunks the worker handles in one run
MaxWords == 22      \* words of a scored text
MaxHits == 3        \* keywords among them
MaxSents == 4       \* sentences of a scored text
MaxTime == 2        \* start and end of a segment, in seconds
RealTick == 31      \* real_main: seconds per clock advance

\* ------------------------------------------------------ program constants
QueryTopK == 5         \* optimized_main.py:194
ContextChunks == 5     \* agentic_synthesizer.py:76
StaleAfter == 30          \* real_main.py:360
SynthesisInterval == 60   \* optimized_main.py:151
MinBufferSize == 3        \* optimized_main.py:148
TailSize == 3             \* optimized_main.py:187 ([-3:])

Conns == 1..MaxConns      \* handler / websocket ids, in order of connection
Tasks == 1..MaxConns      \* worker task ids, in order of creation

VARIABLES
  budget,     \* the number of inputs the environment gives in this run
  now,        \* time.time()
  nConns,     \* connections opened so far
  wsOpen,     \* per websocket: "unused", "open", "closed" (client gone)
  active,     \* manager.active_connections[lecture_id] (0: no entry)
  curTask,    \* processor.processing_tasks[lecture_id] (0: no entry)
  nTasks,     \* tasks created so far
  queue,      \* processor.audio_queues[lecture_id]: the queued chunk_data
  qgen,       \* identity of the asyncio.Queue object currently in the dict
  buffer,     \* processor.transcription_buffers[lecture_id]
  history,    \* processor.structured_notes_history[lecture_id]
  lastSynth,  \* processor.last_synthesis_time[lecture_id] (0.0: never set)
  hpc,        \* per handler: where websocket_endpoint is suspended
  hOld,       \* per handler: old_task it awaits
  hPass,      \* per handler: locals of its synthesize_notes call
  tpc,        \* per task: where process_lecture_audio is suspended
  tCancel,    \* per task: cancel() was called and not yet delivered
  tWaitQ,     \* per task: the queue object its get() waits on
  tChunk,     \* per task: chunk_data being handled
  tPass,      \* per task: locals of its synthesize_notes call
  inflight,   \* per websocket: uploads suspended in audio_file.read()
  nUploads,   \* uploads accepted so far
  nChunks,    \* chunks put on a queue so far (the id of the last one)
  nCmds,      \* control commands received so far
  nAttempts,  \* synthesis attempts started so far (the number of the last one)
  events,     \* per websocket: the JSON events handed to send_json, in order
  ctx,        \* per attempt: previous_notes it put in its context (0: None)
  discarded,  \* ids of the chunks dropped with a replaced queue
  handled,    \* ids of the chunks dequeued, in dequeue order
  synthesized,\* ids of the entries that were input of a successful pass
  files,      \* ids of the chunks whose audio file is in temp_dir
  resp        \* the body of the last HTTP response of receive_audio_chunk

\* ------------------------------------------------- real_main.py: the state
RConns == 1..MaxRealConns      \* websocket ids, in order of connection
RWorkers == 1..MaxRealWorkers  \* ids of the workers and of their queue objects

VARIABLES
  rIn,        \* inputs the environment has given so far
  rNow,       \* time.time()
  rNConns,    \* connections opened so far
  rWs,        \* per websocket: "unused", "open", "closed" (client gone)
  rActive,    \* manager.active_connections[lecture_id] (0: no entry)
  rRec,       \* manager.recording_sessions[lecture_id]: "absent", "off", "on"
  rQEntry,    \* manager.processing_queues[lecture_id]: a queue object (0: no entry)
  rTEntry,    \* manager.processing_tasks[lecture_id]: a worker (0: no entry)
  rQs,        \* per queue object: the (audio_data, timestamp) items it holds
  rNWorkers,  \* workers (and queue objects) created so far
  rpc,        \* per worker: where _process_audio_queue is suspended
  rItem,      \* per worker: the item it is processing
  rhpc,       \* per handler: where websocket_endpoint is suspended
  rUploads,   \* uploads received so far (the id of the last one)
  rResp,      \* the body of the last HTTP response of upload_audio_chunk
  rEvents     \* per websocket: the messages handed to send_text, in order

realVars == <<rIn, rNow, rNConns, rWs, rActive, rRec, rQEntry, rTEntry, rQs,
              rNWorkers, rpc, rItem, rhpc, rUploads, rResp, rEvents>>

NoItem == [id |-> 0, ts |-> 0]

RealStart ==
  /\ rIn = 0
  /\ rNow = StartTime
  /\ rNConns = 0
  /\ rWs = [c \in RConns |-> "unused"]
  /\ rActive = 0
  /\ rRec = "absent"
  /\ rQEntry = 0
  /\ rTEntry = 0
  /\ rQs = [q \in RWorkers |-> <<>>]
  /\ rNWorkers = 0
  /\ rpc = [w \in RWorkers |-> "none"]
  /\ rItem = [w \in RWorkers |-> NoItem]
  /\ rhpc = [c \in RConns |-> "idle"]
  /\ rUploads = 0
  /\ rResp = "none"
  /\ rEvents = [c \in RConns |-> <<>>]

\* ---------------------------------- app/api/live_recording.py: the state
LConns == 1..MaxLiveConns      \* websocket ids, in order of connection
LChunks == 1..MaxLiveChunks    \* upload ids, in order of arrival

VARIABLES
  lIn,        \* inputs the environment has given so far
  lMsg,       \* the last input: its kind and the connection it came on
  lNConns,    \* connections opened so far
  lWs,        \* per websocket: "unused", "open", "closed" (client gone)
  lActive,    \* manager.connections[lecture_id] (0: no entry)
  lSession,   \* manager.sessions[lecture_id]: "absent", "started", "ended"
  lhpc,       \* per handler: where websocket_live_recording is suspended
  lNUploads,  \* uploads received so far (the id of the last one)
  lFlight,    \* the uploads suspended in process_audio_chunk
  lResp,      \* per upload: the HTTP response ("none": not answered yet)
  lEvents     \* per websocket: the messages handed to send_text, in order

liveVars == <<lIn, lMsg, lNConns, lWs, lActive, lSession, lhpc, lNUploads,
              lFlight, lResp, lEvents>>

NoMsg == [kind |-> "none", c |-> 0]

LiveStart ==
  /\ lIn = 0
  /\ lMsg = NoMsg
  /\ lNConns = 0
  /\ lWs = [c \in LConns |-> "unused"]
  /\ lActive = 0
  /\ lSession = "absent"
  /\ lhpc = [c \in LConns |-> "idle"]
  /\ lNUploads = 0
  /\ lFlight = {}
  /\ lResp = [k \in LChunks |-> "none"]
  /\ lEvents = [c \in LConns |-> <<>>]

\* ------------------------------------ app/services: the functions applied
VARIABLES
  fArg,       \* the function applied in this run and its inputs
  fRes        \* what the call gave: a return value or an exception

fnVars == <<fArg, fRes>>

NoArg == [fn |-> "none"]
NoResult == [done |-> FALSE]

FnStart == fArg = NoArg /\ fRes = NoResult

\* ------------------------- optimized_main.py: who runs on the event loop
VARIABLES
  eIn,        \* commands the client has sent so far
  ePending,   \* commands received on the socket and not handled yet
  eAnswered,  \* commands handled and answered
  eWorker,    \* the call process_lecture_audio is in
  eDone       \* chunks the worker has finished with

loopVars == <<eIn, ePending, eAnswered, eWorker, eDone>>

LoopStart ==
  /\ eIn = 0 /\ ePending = 0 /\ eAnswered = 0
  /\ eWorker = "get"
  /\ eDone = 0

\* the state of the programs other than optimized_main.py
ext == <<realVars, liveVars, fnVars, loopVars>>

ExtStart == RealStart /\ LiveStart /\ FnStart /\ LoopStart

vars == <<ext, budget, now, nConns, wsOpen, active, curTask, nTasks, queue, qgen, buffer,
          history, lastSynth, hpc, hOld, hPass, tpc, tCancel, tWaitQ, tChunk,
          tPass, inflight, nUploads, nChunks, nCmds, nAttempts, events, ctx,
          discarded, files, handled, synthesized, resp>>

\* the per-lecture SynthesisState
synthState == <<buffer, history, lastSynth>>

\* ---------------------------------------------------------------- helpers
Max(a, b) == IF a >= b THEN a ELSE b

Range(s) == {s[i] : i \in DOMAIN s}

\* Python s[-k:]
LastK(s, k) == SubSeq(s, Max(1, Len(s) - k + 1), Len(s))

Ids(s) == {s[i].id : i \in DOMAIN s}

Min(a, b) == IF a <= b THEN a ELSE b

NoChunk == [id |-> 0, ws |-> 0, queued |-> 0]
NoPass == [att |-> 0, inp |-> <<>>, prev |-> 0, ws |-> 0, buf0 |-> <<>>, last0 |-> 0,
           query |-> <<>>, rag |-> <<>>]

TaskDone(t) == tpc[t] \in {"cancelled", "finished"}

\* a worker that has started running and has not terminated
TaskRunning(t) == tpc[t] \notin {"none", "new", "cancelled", "finished"}

\* the inputs the environment has given so far
Inputs ==
  nConns + nUploads + nCmds + (now - StartTime) \div TickSeconds
    + Cardinality({c \in Conns : wsOpen[c] = "closed"})

MoreInput == Inputs < budget

Start ==
  /\ now = StartTime
  /\ nConns = 0
  /\ wsOpen = [c \in Conns |-> "unused"]
  /\ active = 0
  /\ curTask = 0
  /\ nTasks = 0
  /\ queue = <<>>
  /\ qgen = 0
  /\ buffer = <<>>
  /\ history = <<>>
  /\ lastSynth = 0
  /\ hpc = [c \in Conns |-> "idle"]
  /\ hOld = [c \in Conns |-> 0]
  /\ hPass = [c \in Conns |-> NoPass]
  /\ tpc = [t \in Tasks |-> "none"]
  /\ tCancel = [t \in Tasks |-> FALSE]
  /\ tWaitQ = [t \in Tasks |-> 0]
  /\ tChunk = [t \in Tasks |-> NoChunk]
  /\ tPass = [t \in Tasks |-> NoPass]
  /\ inflight = [c \in Conns |-> 0]
  /\ nUploads = 0
  /\ nChunks = 0
  /\ nCmds = 0
  /\ nAttempts = 0
  /\ events = [c \in Conns |-> <<>>]
  /\ ctx = <<>>
  /\ discarded = {}
  /\ files = {}
  /\ handled = <<>>
  /\ synthesized = {}
  /\ resp = "none"

Init == budget = MaxInputs /\ Start /\ ExtStart

\* ------------------------------------------------------------- the trigger
\* A transcript entry's text either holds one of the transition keywords or
\* not: entry.marker.
\* detect_topic_shift looking for the keyword in the previous transcriptions
detect_topic_shift_previous(current, previous) ==
  \E i \in DOMAIN previous : previous[i].marker

detect_topic_shift(current, previous) ==
  IF previous = <<>> THEN FALSE ELSE current.marker

\* should_synthesize without the topic-shift branch of lines 154-164
ShouldSynthesizeNoShift(buf, current_time, last_synthesis) ==
  /\ Len(buf) >= MinBufferSize
  /\ (current_time - last_synthesis >= SynthesisInterval \/ last_synthesis = 0)

\* should_synthesize with "buffer_size > 3" at line 148
ShouldSynthesizeOver(buf, current_time, last_synthesis) ==
  /\ Len(buf) > MinBufferSize
  /\ \/ current_time - last_synthesis >= SynthesisInterval
     \/ last_synthesis = 0
     \/ buf[Len(buf)].marker

\* lines 141-164: should_synthesize
ShouldSynthesize(buf, current_time, last_synthesis) ==
  IF Len(buf) >= MinBufferSize
    THEN IF current_time - last_synthesis >= SynthesisInterval \/ last_synthesis = 0
           THEN TRUE
           ELSE LET recent == LastK(buf, 3)
                IN  detect_topic_shift(recent[Len(recent)],
                                       SubSeq(recent, 1, Len(recent) - 1))
    ELSE FALSE

\* -------------------------------------------------------- synthesize_notes
SendOk(ws) == wsOpen[ws] = "open"

Event(type, ws, chunk, n) == [type |-> type, ws |-> ws, chunk |-> chunk, n |-> n]

\* websocket.send_json(ev) on an open websocket
Sent(ev) == [events EXCEPT ![ev.ws] = Append(@, ev)]

\* line 187: transcriptions
\* a pass over everything in the buffer
PassInputAll(buf) == buf

PassInput(buf) == LastK(buf, TailSize)

\* previous_notes taken from the head of the history
PreviousNotesOldest(h) == IF h # <<>> THEN h[1] ELSE 0

\* lines 197-199: previous_notes (0: None)
PreviousNotes(h) == IF h # <<>> THEN h[Len(h)] ELSE 0

\* a truncation that keeps the entries just synthesized
TruncatedToTail(buf) == LastK(buf, TailSize)

\* line 235: the buffer after a successful pass
Truncated(buf) == LastK(buf, 1)

\* ---------------------------------- document_processor.py: query results
Returned(v) == [done |-> TRUE, raised |-> FALSE, value |-> v]
Raised == [done |-> TRUE, raised |-> TRUE, value |-> <<>>]

\* lines 227-230: chunks[i] for each i < len(chunks); a negative i counts
\* from the end, and raises IndexError on an empty list
RECURSIVE Results(_, _, _)
Results(indices, n, results) ==
  IF indices = <<>>
    THEN Returned(results)
    ELSE LET i == Head(indices) IN
         IF i >= n
           THEN Results(Tail(indices), n, results)
           ELSE IF i >= 0
                  THEN Results(Tail(indices), n, Append(results, i))
                  ELSE IF n + i >= 0
                         THEN Results(Tail(indices), n, Append(results, n + i))
                         ELSE Raised

\* the sizes of the lecture's chunk store a query may find
Indexed == {0, 1, MaxIndexed}

\* index.search(query_embedding, top_k) over `stored` vectors: the nearest
\* first, -1 where the index has no more
Search(stored, top_k) == [k \in 1..top_k |-> IF k <= stored THEN k - 1 ELSE -1]

\* optimized_main.py line 194 (document_processor.py lines 216-237) and
\* agentic_synthesizer.py line 76: the chunks found for the query, of which
\* the synthesizer takes rag_context[:5]
RagContext(stored) ==
  LET found == Results(Search(stored, QueryTopK), stored, <<>>)
      rag_context == IF found.raised THEN <<>> ELSE found.value
  IN  SubSeq(rag_context, 1, Min(ContextChunks, Len(rag_context)))

\* lines 186-199: the locals of a pass that starts now on websocket ws with
\* `stored` chunks in the lecture's store (and, for the record, the buffer and
\* last_synthesis_time it starts from)
NewPass(ws, stored) ==
  LET transcriptions == PassInput(buffer) IN
  [att |-> nAttempts + 1, inp |-> transcriptions,
   prev |-> PreviousNotes(history), ws |-> ws,
   buf0 |-> buffer, last0 |-> lastSynth,
   query |-> [k \in DOMAIN transcriptions |-> transcriptions[k].id],
   rag |-> RagContext(stored)]

\* lines 184-205, entered with a non-empty buffer: the context is assembled and
\* synthesis_started is sent.  When send_json raises, the synthesis_error send
\* of lines 237-242, on the same closed websocket, raises out of the pass.
PassBegin(p, chunk) ==
  /\ nAttempts' = nAttempts + 1
  /\ ctx' = Append(ctx, p.prev)
  /\ events' = IF SendOk(p.ws)
                 THEN Sent(Event("synthesis_started", p.ws, chunk, p.att))
                 ELSE events

\* lines 208-227, resumed with the result of synthesize_structured_notes:
\* "ok" (success) or "raise".  The note of attempt N is N.
PassResult(p, chunk, outcome) ==
  /\ history' = IF outcome = "ok" THEN Append(history, p.att) ELSE history
  /\ events' = IF SendOk(p.ws)
                 THEN Sent(Event(IF outcome = "ok" THEN "structured_notes"
                                                ELSE "synthesis_error",
                              p.ws, chunk, p.att))
                 ELSE events

\* lines 229-235, resumed after the structured_notes send
PassCommit(p) ==
  /\ lastSynth' = now
  /\ buffer' = Truncated(buffer)
  /\ synthesized' = synthesized \cup Ids(p.inp)

\* ------------------------------------------------------------------ groups
regVars == <<nConns, wsOpen, active, nCmds>>
taskReg == <<curTask, nTasks>>
qVars == <<queue, qgen, discarded, files>>
upVars == <<inflight, nUploads, nChunks, resp>>
hVars == <<hpc, hOld, hPass>>
attVars == <<nAttempts, ctx>>

\* ------------------------------------------------- process_lecture_audio
\* the first step of a created task: up to the first queue.get()
TaskStart(t) ==
  /\ tpc[t] = "new" /\ ~tCancel[t]
  /\ tpc' = [tpc EXCEPT ![t] = "get"]
  /\ tWaitQ' = [tWaitQ EXCEPT ![t] = qgen]
  /\ UNCHANGED <<ext, budget, now, regVars, taskReg, qVars, upVars, hVars, attVars, buffer,
                 history, lastSynth, synthesized, events, handled, tCancel,
                 tChunk, tPass>>

\* a cancelled task is resumed with CancelledError at its suspension point;
\* lines 175-177 re-raise it and the task ends cancelled
TaskCancelled(t) ==
  /\ tCancel[t] /\ tpc[t] \notin {"none", "cancelled", "finished"}
  /\ tpc' = [tpc EXCEPT ![t] = "cancelled"]
  /\ tCancel' = [tCancel EXCEPT ![t] = FALSE]
  /\ UNCHANGED <<ext, budget, now, regVars, taskReg, qVars, upVars, hVars, attVars, buffer,
                 history, lastSynth, synthesized, events, handled, tWaitQ,
                 tChunk, tPass>>

\* lines 169-173 and back to line 99: the iteration ends, the next get()
EndIteration(t) ==
  /\ files' = files \ {tChunk[t].id}
  /\ tpc' = [tpc EXCEPT ![t] = "get"]
  /\ tWaitQ' = [tWaitQ EXCEPT ![t] = qgen]
  /\ tChunk' = [tChunk EXCEPT ![t] = NoChunk]
  /\ tPass' = [tPass EXCEPT ![t] = NoPass]

\* lines 178-179: an exception ends the task
Fatal(t) ==
  /\ tpc' = [tpc EXCEPT ![t] = "finished"]
  /\ tChunk' = [tChunk EXCEPT ![t] = NoChunk]
  /\ tPass' = [tPass EXCEPT ![t] = NoPass]
  /\ UNCHANGED <<tWaitQ, files>>

Outcomes == {"error", "empty", "plain", "marker"}

\* only a transcription that raises is passed over
SkippedOnError(outcome) == outcome = "error"

\* lines 112-118: transcribe_local raised, or its text is empty
Skipped(outcome) == outcome \in {"error", "empty"}

\* lines 99-136: a chunk is dequeued and transcribed; with text, the entry is
\* appended and the transcription event sent
WorkerGet(t, outcome) ==
  /\ tpc[t] = "get" /\ ~tCancel[t]
  /\ tWaitQ[t] = qgen /\ queue # <<>>
  /\ LET chunk == Head(queue) IN
     /\ queue' = Tail(queue)
     /\ handled' = Append(handled, chunk.id)
     /\ IF Skipped(outcome)
          THEN /\ tpc' = tpc
               /\ tWaitQ' = [tWaitQ EXCEPT ![t] = qgen]
               /\ UNCHANGED <<buffer, events, tChunk, tPass, files>>
          ELSE /\ buffer' = Append(buffer, [id |-> chunk.id,
                                            marker |-> (outcome = "marker")])
               /\ IF SendOk(chunk.ws)
                    THEN /\ events' = Sent(Event("transcription", chunk.ws, chunk.id,
                                     Len(buffer) + 1))
                         /\ tpc' = [tpc EXCEPT ![t] = "send_trans"]
                         /\ tChunk' = [tChunk EXCEPT ![t] = chunk]
                         /\ UNCHANGED <<tWaitQ, tPass, files>>
                    ELSE /\ Fatal(t)
                         /\ UNCHANGED events
  /\ UNCHANGED <<ext, budget, now, regVars, taskReg, qgen, discarded, upVars, hVars, attVars,
                 history, lastSynth, synthesized, tCancel>>

\* lines 141-173, resumed after the transcription send: the trigger is
\* evaluated; synthesize_notes runs up to its first suspension, or the
\* iteration ends
WorkerEval(t) ==
  /\ tpc[t] = "send_trans" /\ ~tCancel[t]
  /\ IF ShouldSynthesize(buffer, now, lastSynth)
       THEN \E stored \in Indexed :
            LET p == NewPass(tChunk[t].ws, stored) IN
              /\ PassBegin(p, tChunk[t].id)
              /\ IF SendOk(p.ws)
                   THEN /\ tpc' = [tpc EXCEPT ![t] = "syn_call"]
                        /\ tPass' = [tPass EXCEPT ![t] = p]
                        /\ UNCHANGED <<tWaitQ, tChunk, files>>
                   ELSE Fatal(t)
       ELSE /\ EndIteration(t)
            /\ UNCHANGED <<attVars, events>>
  /\ UNCHANGED <<ext, budget, now, regVars, taskReg, queue, qgen, discarded, upVars, hVars,
                 buffer, history, lastSynth, synthesized, handled, tCancel>>

\* lines 208-227, resumed with the synthesizer's result
WorkerPassResult(t, outcome) ==
  /\ tpc[t] = "syn_call" /\ ~tCancel[t]
  /\ PassResult(tPass[t], tChunk[t].id, outcome)
  /\ IF SendOk(tPass[t].ws)
       THEN /\ tpc' = [tpc EXCEPT ![t] =
                         IF outcome = "ok" THEN "syn_notes" ELSE "syn_err"]
            /\ UNCHANGED <<tWaitQ, tChunk, tPass, files>>
       ELSE Fatal(t)
  /\ UNCHANGED <<ext, budget, now, regVars, taskReg, queue, qgen, discarded, upVars, hVars,
                 attVars, buffer, lastSynth, synthesized, handled, tCancel>>

\* lines 229-235 and the end of the iteration
WorkerPassCommit(t) ==
  /\ tpc[t] = "syn_notes" /\ ~tCancel[t]
  /\ PassCommit(tPass[t])
  /\ EndIteration(t)
  /\ UNCHANGED <<ext, budget, now, regVars, taskReg, queue, qgen, discarded, upVars, hVars,
                 attVars, history, events, handled, tCancel>>

\* resumed after the synthesis_error send: the pass returns, the iteration ends
WorkerPassFailed(t) ==
  /\ tpc[t] = "syn_err" /\ ~tCancel[t]
  /\ EndIteration(t)
  /\ UNCHANGED <<ext, budget, now, regVars, taskReg, queue, qgen, discarded, upVars, hVars,
                 attVars, buffer, history, lastSynth, synthesized, events, handled, tCancel>>


\* ----------------------------------------------------- websocket_endpoint
\* manager.disconnect (lines 258-261)
Disconnect == active' = 0

\* lines 336-351: the queue is replaced (only on a reconnection), the new task
\* created and registered, connection_confirmed sent.  An exception of the
\* send ends the handler; only a WebSocketDisconnect runs manager.disconnect.
StartWorker(c, reconnect, wsd) ==
  /\ IF reconnect
       THEN /\ queue' = <<>>
            /\ qgen' = qgen + 1
            /\ discarded' = discarded \cup Ids(queue)
            /\ UNCHANGED files
       ELSE UNCHANGED qVars
  /\ nTasks' = nTasks + 1
  /\ curTask' = nTasks + 1
  /\ tpc' = [tpc EXCEPT ![nTasks + 1] = "new"]
  /\ IF SendOk(c)
       THEN /\ events' = Sent(Event("connection_confirmed", c, 0, 0))
            /\ hpc' = [hpc EXCEPT ![c] = "recv"]
            /\ UNCHANGED active
       ELSE /\ events' = events
            /\ hpc' = [hpc EXCEPT ![c] = "done"]
            /\ IF wsd THEN Disconnect ELSE UNCHANGED active

\* lines 325-351: a client connects; manager.connect registers the websocket;
\* an old task is cancelled and awaited
Connect(c) ==
  /\ MoreInput
  /\ c = nConns + 1 /\ hpc[c] = "idle"
  /\ nConns' = c
  /\ wsOpen' = [wsOpen EXCEPT ![c] = "open"]
  /\ IF curTask # 0 /\ ~TaskDone(curTask)
       THEN /\ active' = c
            /\ tCancel' = [tCancel EXCEPT ![curTask] = TRUE]
            /\ hpc' = [hpc EXCEPT ![c] = "await_old"]
            /\ hOld' = [hOld EXCEPT ![c] = curTask]
            /\ UNCHANGED <<taskReg, qVars, tpc, events>>
       ELSE /\ active' = c
            /\ nTasks' = nTasks + 1
            /\ curTask' = nTasks + 1
            /\ tpc' = [tpc EXCEPT ![nTasks + 1] = "new"]
            /\ IF curTask # 0
                 THEN /\ queue' = <<>>
                      /\ qgen' = qgen + 1
                      /\ discarded' = discarded \cup Ids(queue)
                      /\ UNCHANGED files
                 ELSE UNCHANGED qVars
            /\ events' = Sent(Event("connection_confirmed", c, 0, 0))
            /\ hpc' = [hpc EXCEPT ![c] = "recv"]
            /\ UNCHANGED <<hOld, tCancel>>
  /\ UNCHANGED <<ext, budget, now, nCmds, upVars, hPass, attVars, buffer, history,
                 lastSynth, synthesized, handled, tWaitQ, tChunk, tPass>>

\* a reconnection that also starts the lecture's state afresh
ReconnectedFresh(c, wsd) ==
  /\ hpc[c] = "await_old" /\ TaskDone(hOld[c])
  /\ StartWorker(c, TRUE, wsd)
  /\ hOld' = [hOld EXCEPT ![c] = 0]
  /\ buffer' = <<>> /\ history' = <<>> /\ lastSynth' = 0
  /\ UNCHANGED <<ext, budget, now, nConns, wsOpen, nCmds, upVars, hPass, attVars,
                 synthesized, handled, tCancel, tWaitQ, tChunk, tPass>>

\* lines 333-351, resumed when the awaited old task is done
Reconnected(c, wsd) ==
  /\ hpc[c] = "await_old" /\ TaskDone(hOld[c])
  /\ StartWorker(c, TRUE, wsd)
  /\ hOld' = [hOld EXCEPT ![c] = 0]
  /\ UNCHANGED <<ext, budget, now, nConns, wsOpen, nCmds, upVars, hPass, attVars, buffer,
                 history, lastSynth, synthesized, handled, tCancel, tWaitQ,
                 tChunk, tPass>>


\* lines 358-363: start_recording is received and answered
RecvStart(c) ==
  /\ MoreInput
  /\ hpc[c] = "recv" /\ wsOpen[c] = "open" /\ nCmds < MaxCmds
  /\ nCmds' = nCmds + 1
  /\ events' = Sent(Event("recording_started", c, 0, 0))
  /\ UNCHANGED <<ext, budget, now, nConns, wsOpen, active, taskReg, qVars, upVars, hVars,
                 attVars, buffer, history, lastSynth, synthesized, handled,
                 tpc, tCancel, tWaitQ, tChunk, tPass>>

\* lines 372-375: recording_stopped is sent; an exception of the send ends
\* the handler
StopAck(c, wsd) ==
  /\ hPass' = [hPass EXCEPT ![c] = NoPass]
  /\ IF SendOk(c)
       THEN /\ events' = Sent(Event("recording_stopped", c, 0, 0))
            /\ hpc' = [hpc EXCEPT ![c] = "recv"]
            /\ UNCHANGED active
       ELSE /\ events' = events
            /\ hpc' = [hpc EXCEPT ![c] = "done"]
            /\ IF wsd THEN Disconnect ELSE UNCHANGED active

\* stop_recording answered at once, without the final synthesis of
\* lines 368-370
RecvStopNoDrain(c) ==
  /\ MoreInput
  /\ hpc[c] = "recv" /\ wsOpen[c] = "open" /\ nCmds < MaxCmds
  /\ nCmds' = nCmds + 1
  /\ StopAck(c, FALSE)
  /\ UNCHANGED <<ext, budget, now, nConns, wsOpen, taskReg, qVars, upVars, hOld, buffer,
                 history, lastSynth, synthesized, handled, tpc, tCancel,
                 tWaitQ, tChunk, tPass, attVars>>

\* lines 365-375: stop_recording is received; with a non-empty buffer the
\* handler itself runs synthesize_notes, up to its first suspension
RecvStop(c) ==
  /\ MoreInput
  /\ hpc[c] = "recv" /\ wsOpen[c] = "open" /\ nCmds < MaxCmds
  /\ nCmds' = nCmds + 1
  /\ IF Len(buffer) > 0
       THEN \E stored \in Indexed :
            LET p == NewPass(c, stored) IN
              /\ PassBegin(p, 0)
              /\ hpc' = [hpc EXCEPT ![c] = "syn_call"]
              /\ hPass' = [hPass EXCEPT ![c] = p]
              /\ UNCHANGED active
       ELSE /\ StopAck(c, FALSE)
            /\ UNCHANGED attVars
  /\ UNCHANGED <<ext, budget, now, nConns, wsOpen, taskReg, qVars, upVars, hOld, buffer,
                 history, lastSynth, synthesized, handled, tpc, tCancel,
                 tWaitQ, tChunk, tPass>>

\* an exception out of synthesize_notes ends the handler
HandlerRaise(c, wsd) ==
  /\ hpc' = [hpc EXCEPT ![c] = "done"]
  /\ hPass' = [hPass EXCEPT ![c] = NoPass]
  /\ IF wsd THEN Disconnect ELSE UNCHANGED active

\* lines 208-227 in the handler, resumed with the synthesizer's result
HandlerPassResult(c, outcome, wsd) ==
  /\ hpc[c] = "syn_call"
  /\ PassResult(hPass[c], 0, outcome)
  /\ IF SendOk(c)
       THEN /\ hpc' = [hpc EXCEPT ![c] =
                         IF outcome = "ok" THEN "syn_notes" ELSE "syn_err"]
            /\ UNCHANGED <<hPass, active>>
       ELSE HandlerRaise(c, wsd)
  /\ UNCHANGED <<ext, budget, now, nConns, wsOpen, nCmds, taskReg, qVars, upVars, hOld,
                 attVars, buffer, lastSynth, synthesized, handled, tpc,
                 tCancel, tWaitQ, tChunk, tPass>>

\* lines 229-235 in the handler, then recording_stopped
HandlerPassCommit(c, wsd) ==
  /\ hpc[c] = "syn_notes"
  /\ PassCommit(hPass[c])
  /\ StopAck(c, wsd)
  /\ UNCHANGED <<ext, budget, now, nConns, wsOpen, nCmds, taskReg, qVars, upVars, hOld,
                 attVars, history, handled, tpc, tCancel, tWaitQ, tChunk,
                 tPass>>

\* the pass returns after the synthesis_error send, then recording_stopped
HandlerPassFailed(c, wsd) ==
  /\ hpc[c] = "syn_err"
  /\ StopAck(c, wsd)
  /\ UNCHANGED <<ext, budget, now, nConns, wsOpen, nCmds, taskReg, qVars, upVars, hOld,
                 attVars, buffer, history, lastSynth, synthesized, handled,
                 tpc, tCancel, tWaitQ, tChunk, tPass>>

\* lines 377-383: receive_text raises WebSocketDisconnect
HandlerDisconnect(c) ==
  /\ hpc[c] = "recv" /\ wsOpen[c] = "closed"
  /\ Disconnect
  /\ hpc' = [hpc EXCEPT ![c] = "done"]
  /\ UNCHANGED <<ext, budget, now, nConns, wsOpen, nCmds, taskReg, qVars, upVars, hOld,
                 hPass, attVars, buffer, history, lastSynth, synthesized,
                 events, handled, tpc, tCancel, tWaitQ, tChunk, tPass>>

\* ------------------------------------------------------------ environment
\* the client closes its connection
ClientClose(c) ==
  /\ MoreInput
  /\ wsOpen[c] = "open"
  /\ wsOpen' = [wsOpen EXCEPT ![c] = "closed"]
  /\ UNCHANGED <<ext, budget, now, nConns, active, nCmds, taskReg, qVars, upVars, hVars,
                 attVars, buffer, history, lastSynth, synthesized, events,
                 handled, tpc, tCancel, tWaitQ, tChunk, tPass>>

\* lines 308-319 and 60-70: an upload finds the lecture's websocket and
\* suspends in audio_file.read().  The one producer of a lecture uploads its
\* chunks one after the other.
UploadBegin ==
  /\ MoreInput
  /\ \A w \in Conns : inflight[w] = 0
  /\ active # 0 /\ nUploads < MaxChunks
  /\ nUploads' = nUploads + 1
  /\ inflight' = [inflight EXCEPT ![active] = @ + 1]
  /\ UNCHANGED <<ext, budget, now, regVars, taskReg, qVars, nChunks, resp, hVars, attVars,
                 buffer, history, lastSynth, synthesized, events, handled, tpc,
                 tCancel, tWaitQ, tChunk, tPass>>

\* lines 313-316: an upload finds no websocket registered for the lecture and
\* is answered with an error
UploadRejected ==
  /\ MoreInput
  /\ \A w \in Conns : inflight[w] = 0
  /\ active = 0 /\ nUploads < MaxChunks
  /\ nUploads' = nUploads + 1
  /\ resp' = "error"
  /\ UNCHANGED <<ext, budget, now, regVars, taskReg, qVars, inflight, nChunks, hVars, attVars,
                 buffer, history, lastSynth, synthesized, events, handled, tpc,
                 tCancel, tWaitQ, tChunk, tPass>>

\* lines 75-85: the chunk is put on the lecture's queue
UploadPut(w) ==
  /\ inflight[w] > 0
  /\ inflight' = [inflight EXCEPT ![w] = @ - 1]
  /\ nChunks' = nChunks + 1
  /\ queue' = Append(queue, [id |-> nChunks + 1, ws |-> w, queued |-> now])
  /\ files' = files \cup {nChunks + 1}
  /\ resp' = "queued"
  /\ UNCHANGED <<ext, budget, now, regVars, taskReg, qgen, discarded, nUploads, hVars,
                 attVars, buffer, history, lastSynth, synthesized, events,
                 handled, tpc, tCancel, tWaitQ, tChunk, tPass>>

\* time passes
Tick ==
  /\ MoreInput
  /\ now < StartTime + MaxTicks * TickSeconds
  /\ now' = now + TickSeconds
  /\ UNCHANGED <<ext, budget, regVars, taskReg, qVars, upVars, hVars, attVars, buffer,
                 history, lastSynth, synthesized, events, handled, tpc,
                 tCancel, tWaitQ, tChunk, tPass>>

\* ---------------------------------------------------------- specification
SynthOutcomes == {"ok", "raise"}

Next ==
  \/ \E c \in Conns : Connect(c)
  \/ \E c \in Conns, wsd \in BOOLEAN : Reconnected(c, wsd)
  \/ \E c \in Conns : RecvStart(c)
  \/ \E c \in Conns : RecvStop(c)
  \/ \E c \in Conns, o \in SynthOutcomes, wsd \in BOOLEAN : HandlerPassResult(c, o, wsd)
  \/ \E c \in Conns, wsd \in BOOLEAN : HandlerPassCommit(c, wsd)
  \/ \E c \in Conns, wsd \in BOOLEAN : HandlerPassFailed(c, wsd)
  \/ \E c \in Conns : HandlerDisconnect(c)
  \/ \E c \in Conns : ClientClose(c)
  \/ UploadBegin
  \/ UploadRejected
  \/ \E w \in Conns : UploadPut(w)
  \/ \E t \in Tasks : TaskStart(t)
  \/ \E t \in Tasks : TaskCancelled(t)
  \/ \E t \in Tasks, o \in Outcomes : WorkerGet(t, o)
  \/ \E t \in Tasks : WorkerEval(t)
  \/ \E t \in Tasks, o \in SynthOutcomes : WorkerPassResult(t, o)
  \/ \E t \in Tasks : WorkerPassCommit(t)
  \/ \E t \in Tasks : WorkerPassFailed(t)
  \/ Tick

Spec == Init /\ [][Next]_vars

\* Runs of connections and uploads only: no command, no disconnection, no
\* clock advance.
InitDeep == budget = MaxDeepInputs /\ Start /\ ExtStart

NextDeep ==
  \/ \E c \in Conns : Connect(c)
  \/ \E c \in Conns : Reconnected(c, FALSE)
  \/ UploadBegin
  \/ \E w \in Conns : UploadPut(w)
  \/ \E t \in Tasks : TaskStart(t)
  \/ \E t \in Tasks : TaskCancelled(t)
  \/ \E t \in Tasks, o \in Outcomes : WorkerGet(t, o)
  \/ \E t \in Tasks : WorkerEval(t)
  \/ \E t \in Tasks, o \in SynthOutcomes : WorkerPassResult(t, o)
  \/ \E t \in Tasks : WorkerPassCommit(t)
  \/ \E t \in Tasks : WorkerPassFailed(t)

SpecDeep == InitDeep /\ [][NextDeep]_vars


\* ------------------------------------------------------------------ claims

\* C1: for every interleaving of connects, at most one process_lecture_audio
\* worker of the lecture is running at any instant.
C1_AtMostOneLiveWorker ==
  Cardinality({t \in Tasks : TaskRunning(t)}) <= 1


\* C2: the SynthesisState (buffer, history, last_synthesis_time) is written
\* only by the lecture's worker: no step of a WebSocket handler changes it.
C2_OnlyWorkerWrites ==
  [][synthState' # synthState => (hpc' = hpc /\ hPass' = hPass)]_vars

\* C3: on every connection, the events produced by audio chunks appear in
\* the order in which the chunks were enqueued.
C3_EventsInChunkOrder ==
  \A w \in Conns : \A i, j \in DOMAIN events[w] :
    (i < j /\ events[w][i].chunk # 0 /\ events[w][j].chunk # 0)
      => events[w][i].chunk <= events[w][j].chunk

\* a running worker that has dequeued a chunk and not finished handling it
Handling(t) == TaskRunning(t) /\ tChunk[t] # NoChunk

\* C4: chunks are dequeued in the order they were enqueued, and a chunk is
\* not started before the one before it has been completely handled.
C4_StrictFifo ==
  /\ \A i, j \in DOMAIN handled : i < j => handled[i] < handled[j]
  /\ Cardinality({t \in Tasks : Handling(t)}) <= 1

\* the step in which worker t evaluates the trigger (lines 141-167)
EvalStep(t) == tpc[t] = "send_trans" /\ tpc'[t] \notin {"send_trans", "cancelled"}

\* the step starts a synthesis pass
Triggered == nAttempts' = nAttempts + 1

Unsynthesized(buf) == {i \in DOMAIN buf : buf[i].id \notin synthesized}

\* the time, first-synthesis or topic-shift part of the trigger condition
TimeOrShift ==
  \/ now - lastSynth >= 60
  \/ lastSynth = 0
  \/ (buffer # <<>> /\ buffer[Len(buffer)].marker)

C6_FirstSynthesis ==
  [][\A t \in Tasks :
        (EvalStep(t) /\ Len(buffer) = 3 /\ lastSynth = 0) => Triggered]_vars

\* the first pass was triggered on 3 entries, the newest without a marker
C6_Witness ==
  \E t \in Tasks :
    /\ tpc[t] = "syn_call"
    /\ tPass[t].last0 = 0
    /\ Len(tPass[t].buf0) = 3
    /\ ~tPass[t].buf0[3].marker

\* the step in which worker t ends a successful pass (line 235)
WorkerCommitStep(t) == tpc[t] = "syn_notes" /\ tpc'[t] = "get"

\* the step in which handler c ends a successful pass (line 235)
HandlerCommitStep(c) == hpc[c] = "syn_notes" /\ hpc'[c] # "syn_notes"

\* the state a successful pass p is claimed to leave
SuccessState(p) ==
  /\ history' # <<>> /\ history'[Len(history')] = p.att
  /\ lastSynth' = now'
  /\ buffer' = <<buffer[Len(buffer)]>>

\* C7: when a synthesis pass succeeds, in the resulting state its note is the
\* last element of the history, last_synthesis_time is the current time and
\* the buffer holds exactly one entry, the most recent one.
C7_SuccessState ==
  [][/\ \A t \in Tasks : WorkerCommitStep(t) => SuccessState(tPass[t])
     /\ \A c \in Conns : HandlerCommitStep(c) => SuccessState(hPass[c])]_vars

\* the step in which worker t's pass ends in failure: after the
\* synthesis_error send, or with an exception raised out of the pass
WorkerFailStep(t) ==
  \/ tpc[t] = "syn_err" /\ tpc'[t] = "get"
  \/ tpc[t] = "syn_call" /\ tpc'[t] = "finished"

\* the synthesis_error event of pass p is among the events sent
ErrorSent(p) ==
  \E i \in DOMAIN events'[p.ws] :
    /\ events'[p.ws][i].type = "synthesis_error"
    /\ events'[p.ws][i].n = p.att

\* C8: when a synthesis pass fails, the buffer and last_synthesis_time are as
\* before the pass, a synthesis_error event has been sent, and the worker goes
\* on to the next task, where the trigger is evaluated again.
C8_FailureState ==
  [][\A t \in Tasks : WorkerFailStep(t) =>
        /\ buffer' = tPass[t].buf0
        /\ lastSynth' = tPass[t].last0
        /\ ErrorSent(tPass[t])
        /\ tpc'[t] = "get"]_vars

ReconnectStep(c) == hpc[c] = "await_old" /\ hpc'[c] # "await_old"

\* C10: when a reconnection to a lecture with a running worker completes, the
\* old worker has terminated by cancellation, the queue with its pending
\* chunks is discarded, and a fresh worker is registered with an empty queue,
\* the only worker left to handle the chunks enqueued afterwards.
C10_Reconnect ==
  [][\A c \in Conns : ReconnectStep(c) =>
        /\ tpc[hOld[c]] = "cancelled"
        /\ queue' = <<>> /\ Ids(queue) \subseteq discarded'
        /\ nTasks' = nTasks + 1 /\ curTask' = nTasks' /\ tpc'[curTask'] = "new"
        /\ \A t \in Tasks \ {curTask'} : ~TaskRunning(t) /\ tpc[t] # "new"]_vars

\* ============================================================ real_main.py
\* The queue-per-lecture ConnectionManager of real_main.py (lines 292-523),
\* for one lecture id.

\* the state of the other programs is left alone

realOnly == UNCHANGED <<liveVars, fnVars, loopVars, budget, now, regVars, taskReg, qVars, upVars, hVars, attVars,
                       buffer, history, lastSynth, synthesized, events, handled,
                       tpc, tCancel, tWaitQ, tChunk, tPass>>

\* After a client has gone, receive_text raises inside the inner try of lines
\* 484-519, whose handlers catch every Exception: the loop of line 482 goes
\* round without ever suspending, and no other coroutine runs again.
Frozen == \E c \in RConns : rhpc[c] = "spin"

RealInput == ~Frozen /\ rIn < MaxRealInputs

\* lines 327-328: is_recording
is_recording == rRec = "on"

\* lines 306-311: disconnect
RealDisconnect == rActive' = 0 /\ rRec' = "absent"

\* lines 313-319: send_message, with recording_sessions as the caller left it
RealSend(type, chunk, rec) ==
  IF rActive = 0
    THEN /\ rRec' = rec
         /\ UNCHANGED <<rActive, rEvents>>
    ELSE IF rWs[rActive] = "open"
           THEN /\ rEvents' = [rEvents EXCEPT ![rActive] =
                                 Append(@, [type |-> type, chunk |-> chunk])]
                /\ rRec' = rec
                /\ UNCHANGED rActive
           ELSE /\ RealDisconnect
                /\ UNCHANGED rEvents

\* lines 478-479 and 300-304: a client connects
RealConnect(c) ==
  /\ RealInput
  /\ c = rNConns + 1 /\ rhpc[c] = "idle"
  /\ rIn' = rIn + 1
  /\ rNConns' = c
  /\ rWs' = [rWs EXCEPT ![c] = "open"]
  /\ rActive' = c
  /\ rRec' = "off"
  /\ rhpc' = [rhpc EXCEPT ![c] = "recv"]
  /\ UNCHANGED <<rNow, rQEntry, rTEntry, rQs, rNWorkers, rpc, rItem, rUploads,
                 rResp, rEvents>>
  /\ realOnly

RealCommands == {"connection_established", "start_recording", "stop_recording"}

\* lines 486-510: a text message is received and answered
RealCommand(c, cmd) ==
  /\ RealInput
  /\ rhpc[c] = "recv" /\ rWs[c] = "open"
  /\ rIn' = rIn + 1
  /\ CASE cmd = "connection_established" -> RealSend("connection_confirmed", 0, rRec)
       [] cmd = "start_recording" -> RealSend("recording_started", 0, "on")
       [] cmd = "stop_recording" -> RealSend("recording_stopped", 0, "off")
  /\ UNCHANGED <<rNow, rNConns, rWs, rQEntry, rTEntry, rQs, rNWorkers, rpc, rItem,
                 rhpc, rUploads, rResp>>
  /\ realOnly

\* the client closes its connection
RealClose(c) ==
  /\ RealInput
  /\ rWs[c] = "open"
  /\ rIn' = rIn + 1
  /\ rWs' = [rWs EXCEPT ![c] = "closed"]
  /\ UNCHANGED <<rNow, rNConns, rActive, rRec, rQEntry, rTEntry, rQs, rNWorkers,
                 rpc, rItem, rhpc, rUploads, rResp, rEvents>>
  /\ realOnly

\* lines 482-519 after the client has gone: WebSocketDisconnect, an
\* Exception, is caught at line 512 and the loop spins
RealSpin(c) ==
  /\ ~Frozen
  /\ rhpc[c] = "recv" /\ rWs[c] = "closed"
  /\ rhpc' = [rhpc EXCEPT ![c] = "spin"]
  /\ UNCHANGED <<rIn, rNow, rNConns, rWs, rActive, rRec, rQEntry, rTEntry, rQs,
                 rNWorkers, rpc, rItem, rUploads, rResp, rEvents>>
  /\ realOnly

\* asyncio.Queue(): maxsize 0, so full() is never true (real_main.py:337,
\* optimized_main.py:55)
QueueMaxSize == 0

Full(q) == QueueMaxSize > 0 /\ Len(q) >= QueueMaxSize

\* lines 455-474 and 330-348: a chunk is uploaded; process_audio_data returns
\* at once when the lecture is not recording, else it creates the queue and
\* its worker when there is none and puts the chunk; the response is the same
RealUpload ==
  /\ RealInput
  /\ rUploads < MaxRealChunks
  /\ rIn' = rIn + 1
  /\ rUploads' = rUploads + 1
  /\ rResp' = "success"
  /\ IF ~is_recording
       THEN UNCHANGED <<rQEntry, rTEntry, rQs, rNWorkers, rpc>>
       ELSE LET create == rQEntry = 0
                q == IF create THEN rNWorkers + 1 ELSE rQEntry
                item == [id |-> rUploads + 1, ts |-> rNow]
            IN  /\ ~create \/ rNWorkers < MaxRealWorkers
                /\ rQEntry' = q
                /\ rTEntry' = IF create THEN q ELSE rTEntry
                /\ rNWorkers' = IF create THEN q ELSE rNWorkers
                /\ rpc' = IF create THEN [rpc EXCEPT ![q] = "new"] ELSE rpc
                /\ rQs' = IF Full(rQs[q]) THEN rQs
                                          ELSE [rQs EXCEPT ![q] = Append(@, item)]
  /\ UNCHANGED <<rNow, rNConns, rWs, rActive, rRec, rItem, rhpc, rEvents>>
  /\ realOnly

\* time passes
RealTickStep ==
  /\ RealInput
  /\ rNow < StartTime + MaxRealTicks * RealTick
  /\ rIn' = rIn + 1
  /\ rNow' = rNow + RealTick
  /\ UNCHANGED <<rNConns, rWs, rActive, rRec, rQEntry, rTEntry, rQs, rNWorkers,
                 rpc, rItem, rhpc, rUploads, rResp, rEvents>>
  /\ realOnly

\* a loop that ends as soon as recording is off, whatever is queued
RealLoopNoDrain(w, rec, qs) ==
  IF rec = "on"
    THEN /\ rpc' = [rpc EXCEPT ![w] = "wait"]
         /\ UNCHANGED <<rQEntry, rTEntry>>
    ELSE /\ rpc' = [rpc EXCEPT ![w] = "done"]
         /\ rQEntry' = 0
         /\ rTEntry' = 0

\* lines 354 and 389-395: the loop condition, with recording_sessions,
\* active_connections and the queues as the step leaves them; the worker waits
\* for the next item, or removes the lecture's entries and ends
RealLoop(w, rec, qs) ==
  IF rec = "on" \/ qs[w] # <<>>
    THEN /\ rpc' = [rpc EXCEPT ![w] = "wait"]
         /\ UNCHANGED <<rQEntry, rTEntry>>
    ELSE /\ rpc' = [rpc EXCEPT ![w] = "done"]
         /\ rQEntry' = 0
         /\ rTEntry' = 0

\* lines 350-357: the first step of a worker, up to wait_for(queue.get())
RealWorkerStart(w) ==
  /\ ~Frozen
  /\ rpc[w] = "new"
  /\ RealLoop(w, rRec, rQs)
  /\ UNCHANGED <<rIn, rNow, rNConns, rWs, rActive, rRec, rQs, rNWorkers, rItem,
                 rhpc, rUploads, rResp, rEvents>>
  /\ realOnly

\* lines 357-367: an item is dequeued; an item older than 30 s is skipped
RealWorkerGet(w) ==
  /\ ~Frozen
  /\ rpc[w] = "wait" /\ rQs[w] # <<>>
  /\ LET item == Head(rQs[w])
         qs == [rQs EXCEPT ![w] = Tail(@)]
     IN  /\ rQs' = qs
         /\ IF rNow - item.ts > StaleAfter
              THEN /\ RealLoop(w, rRec, qs)
                   /\ UNCHANGED rItem
              ELSE /\ rpc' = [rpc EXCEPT ![w] = "proc"]
                   /\ rItem' = [rItem EXCEPT ![w] = item]
                   /\ UNCHANGED <<rQEntry, rTEntry>>
  /\ UNCHANGED <<rIn, rNow, rNConns, rWs, rActive, rRec, rNWorkers, rhpc,
                 rUploads, rResp, rEvents>>
  /\ realOnly

\* lines 357 and 382-384: wait_for times out on an empty queue
RealWorkerTimeout(w) ==
  /\ ~Frozen
  /\ rpc[w] = "wait" /\ rQs[w] = <<>>
  /\ RealLoop(w, rRec, rQs)
  /\ UNCHANGED <<rIn, rNow, rNConns, rWs, rActive, rRec, rQs, rNWorkers, rItem,
                 rhpc, rUploads, rResp, rEvents>>
  /\ realOnly

\* lines 367-387, resumed with the result of process_audio_chunk: live_update
\* is sent and the worker sleeps; an exception is logged and the loop goes on
RealWorkerProcessed(w, ok) ==
  /\ ~Frozen
  /\ rpc[w] = "proc"
  /\ rItem' = [rItem EXCEPT ![w] = NoItem]
  /\ IF ok
       THEN /\ RealSend("live_update", rItem[w].id, rRec)
            /\ rpc' = [rpc EXCEPT ![w] = "sleep"]
            /\ UNCHANGED <<rQEntry, rTEntry>>
       ELSE /\ RealLoop(w, rRec, rQs)
            /\ UNCHANGED <<rActive, rRec, rEvents>>
  /\ UNCHANGED <<rIn, rNow, rNConns, rWs, rQs, rNWorkers, rhpc, rUploads, rResp>>
  /\ realOnly

\* line 380 and back to line 354
RealWorkerSlept(w) ==
  /\ ~Frozen
  /\ rpc[w] = "sleep"
  /\ RealLoop(w, rRec, rQs)
  /\ UNCHANGED <<rIn, rNow, rNConns, rWs, rActive, rRec, rQs, rNWorkers, rItem,
                 rhpc, rUploads, rResp, rEvents>>
  /\ realOnly

InitReal == budget = 0 /\ Start /\ ExtStart

NextReal ==
  \/ \E c \in RConns : RealConnect(c)
  \/ \E c \in RConns, cmd \in RealCommands : RealCommand(c, cmd)
  \/ \E c \in RConns : RealClose(c)
  \/ \E c \in RConns : RealSpin(c)
  \/ RealUpload
  \/ RealTickStep
  \/ \E w \in RWorkers : RealWorkerStart(w)
  \/ \E w \in RWorkers : RealWorkerGet(w)
  \/ \E w \in RWorkers : RealWorkerTimeout(w)
  \/ \E w \in RWorkers, ok \in BOOLEAN : RealWorkerProcessed(w, ok)
  \/ \E w \in RWorkers : RealWorkerSlept(w)

SpecReal == InitReal /\ [][NextReal]_vars

\* ----------------------------------------------------------- claims C11-C20

\* the step in which optimized_main answers an upload for a lecture with no
\* registered websocket
RejectStep == nUploads' = nUploads + 1 /\ active = 0

\* C11, optimized_main.py: an upload for a lecture with no open session is
\* answered with an error; nothing is enqueued, no worker is created and the
\* lecture's state is unchanged.
C11_NoSessionOptimized ==
  [][RejectStep =>
        /\ resp' = "error"
        /\ UNCHANGED <<queue, qgen, nChunks, inflight, nTasks, curTask, tpc,
                       synthState>>]_vars

\* the step in which real_main answers an upload
RealUploadStep == rUploads' = rUploads + 1

\* C11, real_main.py: an upload for a lecture with no open session is answered
\* with an error; nothing is enqueued, no worker is created and the lecture's
\* state is unchanged.
C11_NoSession ==
  [][(RealUploadStep /\ rActive = 0) =>
        /\ rResp' = "error"
        /\ UNCHANGED <<rQEntry, rTEntry, rQs, rNWorkers, rpc, rRec>>]_vars

\* C12, real_main.py: an upload for a lecture whose session is open but not
\* recording is answered with an error, and the chunk is not enqueued.
C12_NotRecording ==
  [][(RealUploadStep /\ rActive # 0 /\ ~is_recording) =>
        /\ rResp' = "error"
        /\ rQs' = rQs]_vars

\* C12, optimized_main.py: no chunk is enqueued on a session that has received
\* no start_recording yet.
C12_NotRecordingOptimized ==
  [][nCmds = 0 => nChunks' = nChunks]_vars

\* C13: the pending items of a session queue never exceed a fixed capacity
\* (the newest item is dropped on a full queue): stated for every capacity
\* smaller than the number of chunks a producer uploads in one run.
C13_BoundedQueue ==
  \A q \in RWorkers : Len(rQs[q]) <= MaxRealChunks - 1

\* the event the step hands to websocket c's send_json, if it is of this type
SendsStep(c, type) ==
  /\ Len(events'[c]) = Len(events[c]) + 1
  /\ events'[c][Len(events'[c])].type = type

\* the step in which a handler receives stop_recording
StopStep ==
  /\ nCmds' = nCmds + 1
  /\ \A c \in Conns : ~SendsStep(c, "recording_started")

\* the events of pass p that end it: structured_notes or synthesis_error
PassEnded(p) ==
  \E i \in DOMAIN events[p.ws] :
    /\ events[p.ws][i].n = p.att
    /\ events[p.ws][i].type \in {"structured_notes", "synthesis_error"}

\* C14: on stop_recording with a non-empty buffer exactly one synthesis pass
\* is started and recording_stopped is not sent before the pass has sent its
\* structured_notes or synthesis_error; with an empty buffer no pass is
\* started and recording_stopped is sent at once.
C14_FinalSynthesis ==
  [][/\ (StopStep /\ buffer # <<>>) =>
          /\ nAttempts' = nAttempts + 1
          /\ \A c \in Conns : ~SendsStep(c, "recording_stopped")
     /\ (StopStep /\ buffer = <<>>) =>
          /\ nAttempts' = nAttempts
          /\ \E c \in Conns : SendsStep(c, "recording_stopped")
     /\ \A c \in Conns : SendsStep(c, "recording_stopped") =>
          \/ StopStep /\ buffer = <<>>
          \/ /\ hPass[c] # NoPass /\ PassEnded(hPass[c])
             /\ nAttempts' = nAttempts]_vars

\* a stop_recording with a non-empty buffer was answered: structured_notes of
\* the final pass, then recording_stopped
C14_Witness ==
  \E c \in Conns : \E i \in DOMAIN events[c] :
    /\ i > 1
    /\ events[c][i].type = "recording_stopped"
    /\ events[c][i - 1].type = "structured_notes"

\* ========================================== app/api/live_recording.py
\* LiveRecordingManager and its endpoints (lines 27-146), for one lecture id.

\* the state of the other programs is left alone
liveOnly == UNCHANGED <<realVars, fnVars, loopVars, budget, now, regVars, taskReg, qVars, upVars, hVars,
                        attVars, buffer, history, lastSynth, synthesized, events,
                        handled, tpc, tCancel, tWaitQ, tChunk, tPass>>

LiveInput == lIn < MaxLiveInputs

\* lines 37-42: disconnect
LiveDisconnect == lActive' = 0 /\ lSession' = "absent"

\* lines 44-50: send_update, with sessions as the caller left it
send_update(type, chunk, session) ==
  IF lActive = 0
    THEN /\ lSession' = session
         /\ UNCHANGED <<lActive, lEvents>>
    ELSE IF lWs[lActive] = "open"
           THEN /\ lEvents' = [lEvents EXCEPT ![lActive] =
                                 Append(@, [type |-> type, chunk |-> chunk])]
                /\ lSession' = session
                /\ UNCHANGED lActive
           ELSE /\ LiveDisconnect
                /\ UNCHANGED lEvents

\* lines 55-56 and 32-35: a client connects
LiveConnect(c) ==
  /\ LiveInput
  /\ c = lNConns + 1 /\ lhpc[c] = "idle"
  /\ lIn' = lIn + 1
  /\ lMsg' = [kind |-> "connect", c |-> c]
  /\ lNConns' = c
  /\ lWs' = [lWs EXCEPT ![c] = "open"]
  /\ lActive' = c
  /\ lhpc' = [lhpc EXCEPT ![c] = "recv"]
  /\ UNCHANGED <<lSession, lNUploads, lFlight, lResp, lEvents>>
  /\ liveOnly

LiveCommands == {"start_recording", "stop_recording", "audio_chunk"}

\* lines 61-69 and 74-105: a text message is received and handled.
\* handle_audio_chunk is defined nowhere: the NameError ends the handler,
\* which runs manager.disconnect only on WebSocketDisconnect.
LiveCommand(c, cmd) ==
  /\ LiveInput
  /\ lhpc[c] = "recv" /\ lWs[c] = "open"
  /\ lIn' = lIn + 1
  /\ lMsg' = [kind |-> cmd, c |-> c]
  /\ CASE cmd = "start_recording" ->
            /\ send_update("recording_started", 0, "started")
            /\ UNCHANGED lhpc
       [] cmd = "stop_recording" ->
            /\ IF lSession # "absent"
                 THEN send_update("recording_stopped", 0, "ended")
                 ELSE UNCHANGED <<lActive, lSession, lEvents>>
            /\ UNCHANGED lhpc
       [] cmd = "audio_chunk" ->
            /\ lhpc' = [lhpc EXCEPT ![c] = "done"]
            /\ UNCHANGED <<lActive, lSession, lEvents>>
  /\ UNCHANGED <<lNConns, lWs, lNUploads, lFlight, lResp>>
  /\ liveOnly

\* the client closes its connection
LiveClose(c) ==
  /\ LiveInput
  /\ lWs[c] = "open"
  /\ lIn' = lIn + 1
  /\ lMsg' = [kind |-> "close", c |-> c]
  /\ lWs' = [lWs EXCEPT ![c] = "closed"]
  /\ UNCHANGED <<lNConns, lActive, lSession, lhpc, lNUploads, lFlight, lResp,
                 lEvents>>
  /\ liveOnly

\* lines 71-72: receive_text raises WebSocketDisconnect
LiveHandlerDisconnect(c) ==
  /\ lhpc[c] = "recv" /\ lWs[c] = "closed"
  /\ LiveDisconnect
  /\ lhpc' = [lhpc EXCEPT ![c] = "done"]
  /\ UNCHANGED <<lIn, lMsg, lNConns, lWs, lNUploads, lFlight, lResp, lEvents>>
  /\ liveOnly

\* lines 108-131: a chunk is uploaded; the request suspends in
\* audio_file.read() and in the executor calls of process_audio_chunk
LiveUploadBegin ==
  /\ LiveInput
  /\ lNUploads < MaxLiveChunks
  /\ lIn' = lIn + 1
  /\ lMsg' = [kind |-> "upload", c |-> 0]
  /\ lNUploads' = lNUploads + 1
  /\ lFlight' = lFlight \cup {lNUploads + 1}
  /\ UNCHANGED <<lNConns, lWs, lActive, lSession, lhpc, lResp, lEvents>>
  /\ liveOnly

\* lines 131-142, resumed with the result of process_audio_chunk (the notes,
\* or an error dict): live_update is sent and the result returned
LiveUploadDone(k, ok) ==
  /\ k \in lFlight
  /\ lFlight' = lFlight \ {k}
  /\ send_update("live_update", k, lSession)
  /\ lResp' = [lResp EXCEPT ![k] = IF ok THEN "result" ELSE "error"]
  /\ UNCHANGED <<lIn, lMsg, lNConns, lWs, lhpc, lNUploads>>
  /\ liveOnly

InitLive == budget = 0 /\ Start /\ ExtStart

NextLive ==
  \/ \E c \in LConns : LiveConnect(c)
  \/ \E c \in LConns, cmd \in LiveCommands : LiveCommand(c, cmd)
  \/ \E c \in LConns : LiveClose(c)
  \/ \E c \in LConns : LiveHandlerDisconnect(c)
  \/ LiveUploadBegin
  \/ \E k \in LChunks, ok \in BOOLEAN : LiveUploadDone(k, ok)

SpecLive == InitLive /\ [][NextLive]_vars

\* the step sends an event of this type on some connection of live_recording
LiveSends(type) ==
  \E c \in LConns :
    /\ Len(lEvents'[c]) = Len(lEvents[c]) + 1
    /\ lEvents'[c][Len(lEvents'[c])].type = type

\* the step in which a handler of live_recording receives this command
LiveReceives(cmd) == lIn' = lIn + 1 /\ lMsg'.kind = cmd

\* C15: every start_recording received on an open connection is answered
\* with recording_started and every stop_recording with recording_stopped,
\* whatever the state of the session: here for live_recording, whose handler
\* sends the answer in the step that receives the command, or never.
C15_CommandsAnswered ==
  [][/\ LiveReceives("start_recording") => LiveSends("recording_started")
     /\ LiveReceives("stop_recording") => LiveSends("recording_stopped")]_vars

\* ============================================ claims on optimized_main.py
\* the lecture has a registered connection and that connection is open
SessionOpen == active # 0 /\ wsOpen[active] = "open"

\* the step in which worker t ends through lines 178-179
WorkerEnds(t) == TaskRunning(t) /\ tpc'[t] = "finished"

\* C16: a failure while a single task is handled (transcription error,
\* synthesis error, a send that fails on the task's connection) never ends
\* the worker: a worker that is not cancelled, of a session that is not
\* closed, does not terminate.
C16_WorkerSurvives ==
  [][\A t \in Tasks : (~tCancel[t] /\ SessionOpen /\ active' = active
                         /\ wsOpen' = wsOpen) => ~WorkerEnds(t)]_vars

\* every connection made has been closed, its handler has ended through
\* lines 377-383 or an exception, and no connection is registered
SessionClosed ==
  /\ nConns > 0 /\ active = 0
  /\ \A c \in Conns : wsOpen[c] # "open" /\ hpc[c] \in {"idle", "done"}

\* nothing is left to run: no task, handler or upload can take a step
Quiescent == ~ENABLED Next

\* no entry of the lecture id holds anything: processing_tasks has no live
\* task, and the queue and the defaultdict entries of lines 50-55 are as new
Released ==
  /\ curTask = 0 \/ TaskDone(curTask)
  /\ queue = <<>>
  /\ buffer = <<>> /\ history = <<>> /\ lastSynth = 0

\* C17: after the session is closed its worker is cancelled and its queue and
\* per-lecture state are released: once the client has disconnected and
\* everything that can run has run, no worker, queue content, transcript
\* buffer, history or last-synthesis time remains for the lecture id.
C17_ReleasedAfterClose == (SessionClosed /\ Quiescent) => Released

\* ========================================= app/services/rag_generator.py
\* A text is the sequence of its lines; a line is what strip() and
\* split(".") see of it: whether it is blank, starts with "Transcript" or
\* holds the three quotes, and the lengths of its stripped sentences.
MinSentence == 10     \* rag_generator.py:118
BulletText == 80      \* rag_generator.py:120
MaxBullets == 5       \* rag_generator.py:125
QuotesLength == 3     \* rag_generator.py:104
NoContentText == 36   \* rag_generator.py:131
ErrorText == 24       \* rag_generator.py:76
FallbackNotes == 5    \* rag_generator.py:223 ([:5])


SentenceLens == {MinSentence, MinSentence + 1, BulletText + MinSentence}

SeqsUpTo(S, n) == UNION {[1..k -> S] : k \in 0..n}

BlankLine == [kind |-> "blank", sents |-> <<>>]
HeadingLine == [kind |-> "Transcript", sents |-> <<MinSentence + 1>>]
QuotesLine == [kind |-> "quotes", sents |-> <<QuotesLength>>]
TextLine(ss) == [kind |-> "text", sents |-> ss]

Lines ==
  {BlankLine, HeadingLine, QuotesLine}
    \cup {TextLine(ss) : ss \in SeqsUpTo(SentenceLens, MaxSentences) \ {<<>>}}

Transcripts == SeqsUpTo(Lines, MaxLines)

\* not transcription_text.strip(): nothing but blank lines
Blank(t) == \A i \in DOMAIN t : t[i].kind = "blank"

\* a line of a returned string: whether it starts with "- ", and the length
\* of what follows
BulletLine(n) == [dash |-> TRUE, text |-> n]
ProseLine(n) == [dash |-> FALSE, text |-> n]

\* lines 55-56: the f-string up to the quotes that close the transcript
prompt_user(transcription_text) ==
  <<HeadingLine, QuotesLine>> \o transcription_text \o <<QuotesLine>>

\* line 104: find('"""', transcript_start + 20) looks behind the opening
\* quotes, which end at offset 21
transcript_end(prompt) ==
  CHOOSE i \in 3..Len(prompt) :
    /\ prompt[i].kind = "quotes"
    /\ \A j \in 3..(i - 1) : prompt[j].kind # "quotes"

\* lines 115-126: the sentences of one line
RECURSIVE SentenceBullets(_, _)
SentenceBullets(sentences, lines) ==
  IF sentences = <<>>
    THEN lines
    ELSE LET sentence == Head(sentences)
             more == IF sentence > MinSentence
                       THEN Append(lines, BulletLine(Min(sentence, BulletText)))
                       ELSE lines
         IN  IF Len(more) >= MaxBullets
               THEN more
               ELSE SentenceBullets(Tail(sentences), more)

\* lines 109-128: the lines of the transcript section
RECURSIVE SectionBullets(_, _)
SectionBullets(section, lines) ==
  IF section = <<>>
    THEN lines
    ELSE LET line == Head(section) IN
         IF line.kind \in {"blank", "Transcript"}
           THEN SectionBullets(Tail(section), lines)
           ELSE LET more == SentenceBullets(line.sents, lines) IN
                IF Len(more) >= MaxBullets
                  THEN more
                  ELSE SectionBullets(Tail(section), more)

\* lines 98-131
fallback_note_generation(prompt) ==
  LET section == SubSeq(prompt, 1, transcript_end(prompt) - 1)
      lines == SectionBullets(section, <<>>)
  IN  IF lines # <<>> THEN lines ELSE <<BulletLine(NoContentText)>>

\* the answers to a raw-notes prompt, stripped
RawAnswers == {<<>>, <<BulletLine(MinSentence)>>, <<ProseLine(MinSentence)>>,
               <<BulletLine(MinSentence), BulletLine(BulletText)>>}

\* lines 78-96
call_llm_for_raw_notes(llm, prompt) ==
  IF llm.mode = "none"
    THEN fallback_note_generation(prompt)
    ELSE IF llm.mode = "raises"
           THEN fallback_note_generation(prompt)
           ELSE llm.text

\* lines 22-76; run_in_executor hands the function's value back, or raises
\* when the loop's executor has been shut down
generate_raw_notes(transcription_text, llm, executor) ==
  IF executor = "ok"
    THEN call_llm_for_raw_notes(llm, prompt_user(transcription_text))
    ELSE <<BulletLine(ErrorText)>>

\* A JSON value is its type and, for an object, its keys and the number of
\* bullets of its first subtopic; a text is JSON syntax for a value, JSON
\* inside a code fence, markdown, or the empty string.
SchemaKeys == {"title", "summary", "subtopics", "key_terms", "key_takeaways"}

JValue(type, keys, bullets) == [type |-> type, keys |-> keys, bullets |-> bullets]
JObject(keys, bullets) == JValue("object", keys, bullets)
JNull == JValue("null", {}, 0)

JsonText(v) == [syntax |-> "json", value |-> v, lines |-> 1]
OtherText(syntax, n) == [syntax |-> syntax, value |-> JNull, lines |-> n]

json_dumps(v) == JsonText(v)

\* json.loads: the value, or JSONDecodeError
json_loads(text) ==
  IF text.syntax = "json"
    THEN [raised |-> FALSE, value |-> text.value]
    ELSE [raised |-> TRUE, value |-> JNull]

\* the answers to a structured-notes prompt, stripped
StructuredAnswers ==
  {JsonText(JObject(SchemaKeys, 1)),
   JsonText(JObject({"title", "summary", "subtopics", "key_takeaways"}, 1)),
   JsonText(JObject({"title", "summary", "subtopics", "key_terms",
                     "key_takeaways", "notes"}, 1)),
   JsonText(JObject({"notes"}, 0)),
   JsonText(JObject({}, 0)),
   JsonText(JValue("array", {}, 0)),
   JsonText(JValue("string", {}, 0)),
   JsonText(JNull),
   OtherText("fenced", 3),
   OtherText("markdown", 3),
   OtherText("empty", 0)}

NoText == OtherText("empty", 0)

\* what the Groq client does in a call: there is none (no credential), the
\* call raises (error, timeout), or it answers with a text
Llms(answers, nothing) ==
  {[mode |-> "none", text |-> nothing], [mode |-> "raises", text |-> nothing]}
    \cup {[mode |-> "answers", text |-> a] : a \in answers}

\* lines 230-257: the text, or the exception of the call raised again
call_llm_for_structured(llm) ==
  IF llm.mode = "answers"
    THEN [raised |-> FALSE, text |-> llm.text]
    ELSE IF llm.mode = "raises"
           THEN [raised |-> TRUE, text |-> NoText]
           ELSE [raised |-> FALSE, text |-> json_dumps(JObject(SchemaKeys, 1))]

\* lines 133-228: raw_notes_list is given by its length
generate_structured_notes(raw_notes_list, llm) ==
  LET generated == call_llm_for_structured(llm)
      parsed == json_loads(generated.text)
  IN  IF ~generated.raised /\ ~parsed.raised
        THEN parsed.value
        ELSE JObject(SchemaKeys, Min(raw_notes_list, FallbackNotes))

\* ===================================== app/services/agentic_synthesizer.py
HeaderLines == 2      \* agentic_synthesizer.py:143
MaxPoints == 10       \* agentic_synthesizer.py:146

RECURSIVE Flat(_)
Flat(t) == IF t = <<>> THEN <<>> ELSE Head(t).sents \o Flat(Tail(t))

\* lines 138-151: markdown, a header and a bullet for each of the first ten
\* sentences that is not blank
fallback_synthesis(transcription) ==
  LET sentences == SubSeq(Flat(transcription), 1,
                          Min(Len(Flat(transcription)), MaxPoints))
  IN  OtherText("markdown", HeaderLines + Len(sentences))

\* lines 66-135
synthesize_sync(full_transcription, llm) ==
  IF llm.mode = "answers" THEN llm.text ELSE fallback_synthesis(full_transcription)

\* lines 21-63: the dict returned, with the text under "structured_notes"
synthesize_structured_notes(transcriptions, llm) ==
  IF Blank(transcriptions)
    THEN [success |-> FALSE, structured_notes |-> NoText]
    ELSE [success |-> TRUE,
          structured_notes |-> synthesize_sync(transcriptions, llm)]

\* ===================================== app/services/document_processor.py
\* What query_documents finds for the lecture id: for each of the two files
\* what stat() gives, whether reading them succeeds, the chunks unpickled
\* (-1: None, otherwise their number), whether embedding and search succeed,
\* and the row of indices of the search (0-based, -1: no neighbour).
Stats == {"absent", "present", "oserror"}

Stores ==
  [index_file : Stats, chunks_file : Stats, read : {"ok", "fails"},
   chunks : -1..MaxStored, search : {"ok", "fails"},
   indices : [1..TopK -> -1..MaxStored]]

None == [index |-> FALSE, chunks |-> -1]

\* Path.exists(): False for a file that is not there; the OSError of stat()
\* for another failure (a name too long, a directory not searchable)
exists(stat) ==
  IF stat = "oserror" THEN [raised |-> TRUE, value |-> FALSE]
                      ELSE [raised |-> FALSE, value |-> (stat = "present")]

\* lines 198-214
load_faiss_index(store) ==
  LET index_file == exists(store.index_file)
      chunks_file == exists(store.chunks_file)
  IN  IF index_file.raised
        THEN Raised
        ELSE IF ~index_file.value
               THEN Returned(None)
               ELSE IF chunks_file.raised
                      THEN Raised
                      ELSE IF ~chunks_file.value \/ store.read = "fails"
                             THEN Returned(None)
                             ELSE Returned([index |-> TRUE,
                                            chunks |-> store.chunks])

\* lines 216-237
query_documents(store) ==
  LET loaded == load_faiss_index(store) IN
  IF loaded.raised
    THEN Raised
    ELSE IF ~loaded.value.index \/ loaded.value.chunks = -1
           THEN Returned(<<>>)
           ELSE LET found == IF store.search = "fails"
                               THEN Raised
                               ELSE Results(store.indices, loaded.value.chunks,
                                            <<>>)
                IN  IF found.raised THEN Returned(<<>>) ELSE found

\* ===================================== app/services/importance_scorer.py
\* Scores are counted in thousandths, durations in milliseconds, rates in
\* thousandths of a word per second.  A text is given by what the tokenizers
\* see of it: its words, the keywords among them, and its sentences.
Unit == 1000          \* importance_scorer.py:26 (1.0)
KeywordNorm == 2      \* importance_scorer.py:26
MinDuration == 1      \* importance_scorer.py:61 (0.001)
WordMillis == 400     \* importance_scorer.py:65 (1 / 2.5)
RateCentre == 2       \* importance_scorer.py:73
LengthNorm == 20      \* importance_scorer.py:78
SentenceNorm == 3     \* importance_scorer.py:82
KeywordWeight == 300  \* importance_scorer.py:86
RateWeight == 200     \* importance_scorer.py:87
LengthWeight == 200   \* importance_scorer.py:88
SentenceWeight == 300 \* importance_scorer.py:89

\* 1 / (1 + exp(-d)) in thousandths, rounded down, at d = -2, -1, ..., 7
Logistic == <<119, 268, 500, 731, 880, 952, 982, 993, 997, 999>>

\* line 73: the curve at the whole words per second; the float is 1.0 once
\* exp() is below its precision
sigmoid(words_per_sec) ==
  LET d == (words_per_sec \div Unit) - RateCentre IN
  IF d + RateCentre + 1 \in DOMAIN Logistic
    THEN Logistic[d + RateCentre + 1]
    ELSE Unit

\* lines 22-26
keyword_bonus(hits) == Min(Unit, (hits * Unit) \div KeywordNorm)

\* lines 28-33
calculate_speaking_rate(words, duration) ==
  IF duration <= 0 THEN 0 ELSE (words * Unit * Unit) \div duration

\* line 78, without its min()
length_score_unclamped(word_count) == (word_count * Unit) \div LengthNorm

\* line 78
length_score(word_count) == Min(Unit, (word_count * Unit) \div LengthNorm)

\* line 82
sentence_score(sentences) == Min(Unit, (sentences * Unit) \div SentenceNorm)

NoSegments == [some |-> FALSE, start |-> 0, end |-> 0]

\* the texts and segments scored: a blank text has no word
Scored ==
  {t \in [words : 0..MaxWords, hits : 0..MaxHits, sentences : 0..MaxSents,
          segments : {NoSegments}
                       \cup [some : {TRUE}, start : 0..MaxTime, end : 0..MaxTime]] :
     /\ t.hits <= t.words
     /\ t.sentences <= t.words
     /\ (t.words = 0) = (t.sentences = 0)}

\* lines 56-65, without the floor of max(0.001, ...)
duration_unfloored(t) ==
  IF t.segments.some
    THEN (t.segments.end - t.segments.start) * Unit
    ELSE t.words * WordMillis

\* lines 56-65
duration(t) ==
  IF t.segments.some
    THEN Max(MinDuration, (t.segments.end - t.segments.start) * Unit)
    ELSE Max(MinDuration, t.words * WordMillis)

\* lines 35-104: the dict returned, a function of its keys
score_importance(t) ==
  IF t.words = 0
    THEN [k \in {"importance", "keyword_score", "speaking_rate_score",
                 "length_score"} |-> 0]
    ELSE LET words_per_sec == calculate_speaking_rate(t.words, duration(t))
             scores == [keyword_score |-> keyword_bonus(t.hits),
                        speaking_rate_score |-> sigmoid(words_per_sec),
                        length_score |-> length_score(t.words),
                        sentence_score |-> sentence_score(t.sentences)]
             importance == (KeywordWeight * scores.keyword_score
                            + RateWeight * scores.speaking_rate_score
                            + LengthWeight * scores.length_score
                            + SentenceWeight * scores.sentence_score) \div Unit
         IN  [k \in {"importance", "keyword_score", "speaking_rate_score",
                     "length_score", "sentence_score", "words_per_sec",
                     "word_count", "duration"} |->
                CASE k = "importance" -> Max(0, Min(Unit, importance))
                  [] k = "words_per_sec" -> words_per_sec
                  [] k = "word_count" -> t.words
                  [] k = "duration" -> duration(t)
                  [] OTHER -> scores[k]]

\* ------------------------------------------------- the functions applied
\* the state of the programs is left alone
fnOnly == UNCHANGED <<realVars, liveVars, loopVars, budget, now, regVars, taskReg, qVars,
                      upVars, hVars, attVars, buffer, history, lastSynth,
                      synthesized, events, handled, tpc, tCancel, tWaitQ, tChunk,
                      tPass>>

Executors == {"ok", "down"}

CallRawNotes(t, llm, executor) ==
  /\ fArg = NoArg
  /\ fArg' = [fn |-> "generate_raw_notes", transcript |-> t, llm |-> llm,
              executor |-> executor]
  /\ fRes' = Returned(generate_raw_notes(t, llm, executor))
  /\ fnOnly

CallStructuredNotes(n, llm) ==
  /\ fArg = NoArg
  /\ fArg' = [fn |-> "generate_structured_notes", raw_notes_list |-> n,
              llm |-> llm]
  /\ fRes' = Returned(generate_structured_notes(n, llm))
  /\ fnOnly

CallSynthesize(t, llm) ==
  /\ fArg = NoArg
  /\ fArg' = [fn |-> "synthesize_structured_notes", transcript |-> t,
              llm |-> llm]
  /\ fRes' = Returned(synthesize_structured_notes(t, llm))
  /\ fnOnly

CallQueryDocuments(store) ==
  /\ fArg = NoArg
  /\ fArg' = [fn |-> "query_documents", store |-> store]
  /\ fRes' = query_documents(store)
  /\ fnOnly

CallScoreImportance(t) ==
  /\ fArg = NoArg
  /\ fArg' = [fn |-> "score_importance", data |-> t]
  /\ fRes' = Returned(score_importance(t))
  /\ fnOnly

InitFn == budget = 0 /\ Start /\ ExtStart

NextFn ==
  \/ /\ fArg = NoArg
     /\ \E n \in 1..MaxNotes, llm \in Llms(StructuredAnswers, NoText) :
          CallStructuredNotes(n, llm)
  \/ /\ fArg = NoArg
     /\ \E t \in Transcripts, llm \in Llms(StructuredAnswers, NoText) :
          CallSynthesize(t, llm)
  \/ /\ fArg = NoArg
     /\ \E store \in Stores : CallQueryDocuments(store)
  \/ /\ fArg = NoArg
     /\ \E t \in Transcripts, llm \in Llms(RawAnswers, <<>>), e \in Executors :
          CallRawNotes(t, llm, e)

SpecFn == InitFn /\ [][NextFn]_vars

\* the runs of the importance scorer alone
NextScore == fArg = NoArg /\ \E t \in Scored : CallScoreImportance(t)

SpecScore == InitFn /\ [][NextScore]_vars

\* the external LLM is disabled or failing
LlmDown == fArg.llm.mode \in {"none", "raises"}

\* a non-empty string of which every line is a bullet
IsBulletString(lines) ==
  lines # <<>> /\ \A i \in DOMAIN lines : lines[i].dash /\ lines[i].text > 0

\* a JSON object with exactly the keys of the fixed schema
HasSchema(v) == v.type = "object" /\ v.keys = SchemaKeys

\* a text that is JSON syntax for an object of the schema
IsSchemaText(text) == text.syntax = "json" /\ HasSchema(text.value)

\* with the LLM down, rag_generator gives a bullet string and a note of the
\* schema with its bullets
RagFallbacks ==
  /\ (fArg.fn = "generate_raw_notes" /\ LlmDown /\ ~Blank(fArg.transcript))
       => IsBulletString(fRes.value)
  /\ (fArg.fn = "generate_structured_notes" /\ LlmDown)
       => HasSchema(fRes.value) /\ fRes.value.bullets > 0

\* C18: with the external LLM disabled or failing, raw-note generation
\* returns a non-empty bullet string and structured-note synthesis returns a
\* non-empty note in the fixed JSON schema, for every non-empty transcript.
C18_Fallbacks ==
  /\ RagFallbacks
  /\ (fArg.fn = "synthesize_structured_notes" /\ LlmDown
        /\ ~Blank(fArg.transcript))
       => /\ fRes.value.success
          /\ IsSchemaText(fRes.value.structured_notes)

\* C19: whatever the external LLM returns for structured synthesis, the
\* structured note handed back has exactly the fields of the fixed schema: a
\* response that is not schema JSON is replaced by the fallback note.
C19_SchemaOrFallback ==
  /\ fArg.fn = "generate_structured_notes" => HasSchema(fRes.value)
  /\ (fArg.fn = "synthesize_structured_notes" /\ ~Blank(fArg.transcript))
       => IsSchemaText(fRes.value.structured_notes)

\* the lecture's store is missing or unreadable, or the search fails
StoreFails(store) ==
  \/ store.index_file # "present" \/ store.chunks_file # "present"
  \/ store.read = "fails" \/ store.search = "fails"

\* with stat() failing only for files that are not there, query_documents
\* returns, and returns an empty list when the store or the search fails
QueryCaught ==
  (/\ fArg.fn = "query_documents"
   /\ fArg.store.index_file # "oserror"
   /\ fArg.store.chunks_file # "oserror")
    => /\ ~fRes.raised
       /\ StoreFails(fArg.store) => fRes.value = <<>>

\* C20: query_documents never raises; when the lecture's index or chunk store
\* is missing or unreadable, or the embedding or search step fails, it
\* returns an empty list.
C20_QueryNeverRaises ==
  fArg.fn = "query_documents" =>
    /\ ~fRes.raised
    /\ StoreFails(fArg.store) => fRes.value = <<>>

\* the scores of a result: the weighted sum and its components
ScoreKeys == {"importance", "keyword_score", "speaking_rate_score",
              "length_score", "sentence_score"}

\* C21: for all text and duration inputs, score_importance returns an
\* importance in [0,1], and every component score it returns (keyword,
\* speaking rate, length, sentence) is in [0,1].
C21_ScoresInUnitInterval ==
  fArg.fn = "score_importance" =>
    /\ "importance" \in DOMAIN fRes.value
    /\ \A k \in ScoreKeys \cap DOMAIN fRes.value :
         fRes.value[k] >= 0 /\ fRes.value[k] <= Unit

\* a text of more than 20 words in one millisecond of speech, with keywords:
\* every component is at its upper end
C21_Witness ==
  /\ fArg.fn = "score_importance"
  /\ fArg.data.words > LengthNorm /\ fArg.data.hits > KeywordNorm
  /\ fArg.data.sentences > SentenceNorm
  /\ fRes.value["importance"] = Unit

\* ======================== optimized_main.py: the calls of the worker and
\* the event loop.  A coroutine that calls a function without await keeps
\* the loop's only thread until the function returns; one that awaits
\* (a send, queue.get(), run_in_executor) gives the thread back.
loopOnly == UNCHANGED <<realVars, liveVars, fnVars, budget, now, regVars, taskReg,
                        qVars, upVars, hVars, attVars, buffer, history, lastSynth,
                        synthesized, events, handled, tpc, tCancel, tWaitQ,
                        tChunk, tPass>>

\* line 109 and line 194: called without await
SyncCalls == {"transcribe_local", "query_documents"}

\* the loop's thread is inside a synchronous call of the worker
Blocked == eWorker \in SyncCalls

\* the client sends start_recording or stop_recording
LoopCommand ==
  /\ eIn < MaxLoopInputs
  /\ eIn' = eIn + 1
  /\ ePending' = ePending + 1
  /\ UNCHANGED <<eAnswered, eWorker, eDone>>
  /\ loopOnly

\* lines 354-375: the handler is resumed from receive_text, handles the
\* command and sends its answer
LoopAnswer ==
  /\ ~Blocked
  /\ ePending > 0
  /\ ePending' = ePending - 1
  /\ eAnswered' = eAnswered + 1
  /\ UNCHANGED <<eIn, eWorker, eDone>>
  /\ loopOnly

\* lines 99-109: the worker is resumed with a chunk and calls transcribe_local
LoopDequeue ==
  /\ eWorker = "get" /\ eDone < MaxLoopChunks
  /\ eWorker' = "transcribe_local"
  /\ UNCHANGED <<eIn, ePending, eAnswered, eDone>>
  /\ loopOnly

\* lines 110-136: transcribe_local returns; without text the next get(),
\* with text the transcription send
LoopTranscribed(text) ==
  /\ eWorker = "transcribe_local"
  /\ eWorker' = IF text THEN "send_json" ELSE "get"
  /\ eDone' = IF text THEN eDone ELSE eDone + 1
  /\ UNCHANGED <<eIn, ePending, eAnswered>>
  /\ loopOnly

\* lines 141-194: resumed after the send; when the trigger fires,
\* synthesize_notes calls query_documents
LoopSent(trigger) ==
  /\ eWorker = "send_json"
  /\ eWorker' = IF trigger THEN "query_documents" ELSE "get"
  /\ eDone' = IF trigger THEN eDone ELSE eDone + 1
  /\ UNCHANGED <<eIn, ePending, eAnswered>>
  /\ loopOnly

\* lines 195-213 and agentic_synthesizer.py lines 49-56: query_documents
\* returns; after the synthesis_started send the LLM call is awaited in the
\* executor
LoopQueried ==
  /\ eWorker = "query_documents"
  /\ eWorker' = "run_in_executor"
  /\ UNCHANGED <<eIn, ePending, eAnswered, eDone>>
  /\ loopOnly

\* lines 215-235: the executor's future is done; the pass and the iteration end
LoopSynthesized ==
  /\ eWorker = "run_in_executor"
  /\ eWorker' = "get"
  /\ eDone' = eDone + 1
  /\ UNCHANGED <<eIn, ePending, eAnswered>>
  /\ loopOnly

InitLoop == budget = 0 /\ Start /\ ExtStart

NextLoop ==
  \/ LoopCommand
  \/ LoopAnswer
  \/ LoopDequeue
  \/ \E text \in BOOLEAN : LoopTranscribed(text)
  \/ \E trigger \in BOOLEAN : LoopSent(trigger)
  \/ LoopQueried
  \/ LoopSynthesized

SpecLoop == InitLoop /\ [][NextLoop]_vars

\* the worker is inside a transcription, a retrieval or an LLM call
InsideCall == eWorker \in {"transcribe_local", "query_documents", "run_in_executor"}

\* C22: while the worker is inside a transcription, retrieval or LLM call,
\* the receive loop can still accept and answer control messages: a command
\* that has arrived can be handled without waiting for the call to finish.
C22_ReceiveLoopFree == (InsideCall /\ ePending > 0) => ENABLED LoopAnswer

\* the three-task scenario: one connection, no command, three chunks whose
\* transcripts are plain, plain and one with a transition keyword
ScenarioBuffer == <<[id |-> 1, marker |-> FALSE], [id |-> 2, marker |-> FALSE],
                    [id |-> 3, marker |-> TRUE]>>

Scenario == nConns = 1 /\ nCmds = 0 /\ handled = <<1, 2, 3>>

\* C23: with at least 3 entries in the buffer and fewer than 60 seconds since
\* the last synthesis, the trigger fires on a task exactly when its transcript
\* holds a transition keyword; in the three-task scenario the third task
\* triggers synthesis, and the pass that succeeds leaves one structured note
\* and a buffer of exactly 1 entry.
C23_TopicShift ==
  [][\A t \in Tasks :
       /\ (/\ EvalStep(t) /\ Len(buffer) >= MinBufferSize
           /\ lastSynth # 0 /\ now - lastSynth < SynthesisInterval)
            => (Triggered <=> buffer[Len(buffer)].marker)
       /\ (EvalStep(t) /\ Scenario /\ buffer = ScenarioBuffer) => Triggered
       /\ (WorkerCommitStep(t) /\ Scenario /\ tPass[t].buf0 = ScenarioBuffer)
            => /\ Len(history') = 1
               /\ buffer' = <<ScenarioBuffer[3]>>]_vars

\* the scenario has run: the pass of the third task has ended with one note
\* and the third entry alone in the buffer
C23_Witness ==
  /\ Scenario
  /\ Len(history) = 1 /\ synthesized = {1, 2, 3}
  /\ buffer = <<ScenarioBuffer[3]>>
  /\ \E t \in Tasks : tpc[t] = "get"

\* a worker takes a chunk off the queue
DequeueStep == Len(handled') = Len(handled) + 1

\* the chunk a dequeue takes has been on the queue for more than 30 s
Stale(chunk) == now - chunk.queued > StaleAfter

\* C24: a task dequeued more than 30 seconds after it was enqueued is
\* skipped: no entry is appended to the buffer, no event is sent, no session
\* state changes, and the worker is back at its queue.get().
C24_StaleSkipped ==
  [][(DequeueStep /\ Stale(Head(queue)))
       => /\ buffer' = buffer /\ events' = events
          /\ history' = history /\ lastSynth' = lastSynth
          /\ tpc' = tpc]_vars

\* the chunks whose handling has ended: dequeued, and in no running worker's
\* hands
Ended == {i \in {handled[k] : k \in DOMAIN handled} :
            \A t \in Tasks : ~(TaskRunning(t) /\ tChunk[t].id = i)}

\* C26: every chunk whose handling has ended has had its audio file removed,
\* and no chunk is dequeued twice.
C26_Discarded ==
  /\ Ended \cap files = {}
  /\ \A j, k \in DOMAIN handled : handled[j] = handled[k] => j = k

\* the result events the client was sent for chunk i, by websocket and position
ResultEvents(i) ==
  UNION {{<<w, k>> : k \in {j \in DOMAIN events[w] :
                             /\ events[w][j].chunk = i
                             /\ events[w][j].type \in {"transcription",
                                                        "structured_notes"}}} :
         w \in Conns}

\* C25: the worker pushes at most one result event for a chunk: a
\* structured_notes event when the trigger fired on it, a transcription event
\* otherwise.
C25_OneResultEvent ==
  \A i \in 1..MaxChunks : Cardinality(ResultEvents(i)) <= 1

\* ------------------------------------------ optimized_main.py: fair workers
\* the steps of process_lecture_audio in task t
WorkerNext(t) ==
  \/ TaskStart(t)
  \/ TaskCancelled(t)
  \/ \E o \in Outcomes : WorkerGet(t, o)
  \/ WorkerEval(t)
  \/ \E o \in SynthOutcomes : WorkerPassResult(t, o)
  \/ WorkerPassCommit(t)
  \/ WorkerPassFailed(t)

\* the steps websocket_endpoint of connection c and the uploads take when
\* resumed: after the await of the old task, with the synthesizer's result,
\* after a send, with the disconnection of its client, with the body read
HandlerNext(c) ==
  \/ \E wsd \in BOOLEAN : Reconnected(c, wsd)
  \/ \E o \in SynthOutcomes, wsd \in BOOLEAN : HandlerPassResult(c, o, wsd)
  \/ \E wsd \in BOOLEAN : HandlerPassCommit(c, wsd)
  \/ \E wsd \in BOOLEAN : HandlerPassFailed(c, wsd)
  \/ HandlerDisconnect(c)
  \/ UploadPut(c)

\* the event loop resumes every coroutine that is ready to run
SpecFair ==
  /\ Init /\ [][Next]_vars
  /\ \A t \in Tasks : WF_vars(WorkerNext(t))
  /\ \A c \in Conns : WF_vars(HandlerNext(c))

\* C27: every chunk put on the lecture's queue is eventually dequeued by a
\* worker, unless a reconnection replaces the queue first; the chunks still
\* queued when the client stops sending or disconnects included.
C27_EventuallyDequeued ==
  \A i \in 1..MaxChunks :
    (i \in Ids(queue)) ~> (i \in Range(handled) \/ i \in discarded)

\* p is made of the last 3 entries of the buffer (of all of them when there
\* are fewer), the last note of the history, if any, and at most 5 chunks
\* found with the text of those entries
TakesInput(p) ==
  /\ Len(p.inp) = Min(TailSize, Len(buffer))
  /\ \A k \in DOMAIN p.inp : p.inp[k] = buffer[Len(buffer) - Len(p.inp) + k]
  /\ p.prev = (IF history = <<>> THEN 0 ELSE history[Len(history)])
  /\ Len(p.query) = Len(p.inp)
  /\ \A k \in DOMAIN p.query : p.query[k] = p.inp[k].id
  /\ Len(p.rag) <= ContextChunks

\* C28: a synthesis pass, of a worker or of a handler, takes as input exactly
\* the last 3 buffered entries (all of them if fewer), the most recent note of
\* the history if any, and at most 5 context chunks retrieved with the
\* concatenation of those entries' text.
C28_PassInput ==
  [][/\ \A t \in Tasks :
          (tpc[t] = "send_trans" /\ tpc'[t] = "syn_call") => TakesInput(tPass'[t])
     /\ \A c \in Conns :
          (hpc[c] = "recv" /\ hpc'[c] = "syn_call") => TakesInput(hPass'[c])]_vars

\* a worker's pass is running on the last 3 of 4 buffered entries with 5
\* chunks of context
C28_Witness ==
  \E t \in Tasks :
    /\ tpc[t] = "syn_call"
    /\ Len(tPass[t].buf0) > TailSize /\ Len(tPass[t].inp) = TailSize
    /\ Len(tPass[t].rag) = ContextChunks

\* the lecture's connection has received one command, a stop_recording, and
\* has been sent recording_stopped
StopHandled ==
  /\ active # 0 /\ nCmds = 1
  /\ \E k \in DOMAIN events[active] : events[active][k].type = "recording_stopped"

\* C29: once a stop_recording has been handled (the final synthesis is done
\* and recording_stopped is sent) no worker takes a chunk off the queue.
C29_CancelledAfterStop == [][DequeueStep => ~StopHandled]_vars

\* the cancellation of task t, which has started, is delivered at its
\* suspension point
CancelStep(t) == tCancel[t] /\ ~tCancel'[t] /\ tpc[t] # "new"

\* C30: a cancelled worker stops where it is suspended, without a further
\* dequeue, state change or event, and returns: the task is finished, not
\* cancelled, and who awaits it gets no CancelledError.
C30_CleanExit ==
  [][\A t \in Tasks :
       CancelStep(t) =>
         /\ UNCHANGED <<queue, handled, buffer, history, lastSynth, events>>
         /\ tpc'[t] = "finished"]_vars

\* ------------------------------------- importance_scorer.py: the duration
\* C31: for every non-empty text the duration score_importance uses is
\* strictly positive, from segment timestamps (the end not after the start
\* included) or from the word-count estimate, and the words per second are
\* the quotient of the word count by it.
C31_PositiveDuration ==
  (fArg.fn = "score_importance" /\ fArg.data.words > 0) =>
    /\ fRes.value["duration"] > 0
    /\ fRes.value["words_per_sec"]
         = (fArg.data.words * Unit * Unit) \div fRes.value["duration"]

\* a text scored with segments whose end is before their start: the
\* duration is the floor
C31_Witness ==
  /\ fArg.fn = "score_importance" /\ fArg.data.words > 0
  /\ fArg.data.segments.some
  /\ fArg.data.segments.end < fArg.data.segments.start
  /\ fRes.value["duration"] = MinDuration

\* ------------------------------------- optimized_main.py: the registry
\* the connection opened last is open and its handler is running
NewestLive ==
  /\ nConns > 0 /\ wsOpen[nConns] = "open"
  /\ hpc[nConns] \notin {"idle", "done"}

\* C32: while the connection opened last for the lecture is open, the
\* registry maps the lecture to it: the disconnection of an older connection
\* does not remove it.
C32_NewestRegistered == NewestLive => active = nConns

\* ------------------------------------- optimized_main.py: passes in flight
InPass == {"syn_call", "syn_notes", "syn_err"}

\* C33: a synthesis pass started by stop_recording never overlaps a pass
\* started by a worker of the lecture: no handler is inside synthesize_notes
\* while a worker is.
C33_OnePassInFlight ==
  \A t \in Tasks, c \in Conns : ~(tpc[t] \in InPass /\ hpc[c] \in InPass)

\* the step in which the pass of worker t ends: it returns, raises, or is
\* cancelled
PassEndStep(t) == tpc[t] \in InPass /\ tpc'[t] \notin InPass

\* C34: a synthesis pass commits all or nothing: when a worker's pass ends,
\* its note is in the history exactly when the pass has also set
\* last_synthesis_time and truncated the buffer; a pass that ends otherwise
\* has left no note.
C34_AllOrNothing ==
  [][\A t \in Tasks :
       PassEndStep(t) =>
         (tPass[t].att \in Range(history')
            <=> (WorkerCommitStep(t) /\ lastSynth' = now /\ Len(buffer') = 1))]_vars

\* the entries a step takes out of the buffer
Removed == Ids(buffer) \ Ids(buffer')

\* C35: no entry leaves the buffer unsynthesized: every entry a step removes
\* from the buffer was input of a successful pass, or is input of a pass
\* still in flight.
C35_NothingLost ==
  [][Removed \subseteq
       (synthesized'
          \cup UNION {Ids(tPass'[t].inp) : t \in {u \in Tasks : tpc'[u] \in InPass}}
          \cup UNION {Ids(hPass'[c].inp) : c \in {d \in Conns : hpc'[d] \in InPass}})]_vars

\* --------------------------------- optimized_main.py: what a reconnect keeps
\* a connection is accepted and registered (lines 325-333)
ConnectStep == nConns' = nConns + 1

\* C36: a reconnect replaces only the worker and the queue: the steps of a
\* connection (its registration with the cancel() of the old task, the
\* delivery of the cancellation, the replacement of queue and worker) leave
\* the buffer, the history and last_synthesis_time unchanged.
C36_ReconnectKeeps ==
  [][(\/ ConnectStep
      \/ \E c \in Conns : ReconnectStep(c)
      \/ \E t \in Tasks : CancelStep(t))
       => UNCHANGED <<buffer, history, lastSynth>>]_vars

\* the worker of a reconnection has appended to the buffer the cancelled
\* worker left, after a synthesis of the lecture
C36_Witness ==
  \E t \in Tasks :
    /\ t = curTask /\ tpc[t] = "send_trans"
    /\ \E u \in Tasks : tpc[u] = "cancelled"
    /\ Len(buffer) >= 2 /\ tChunk[t].id = buffer[Len(buffer)].id
    /\ buffer[1].id \in synthesized /\ history # <<>> /\ lastSynth # 0

\* ------------------------------ optimized_main.py: a chunk without text
\* C37: a task whose transcription raises or yields empty text leaves the
\* buffer, the history and last_synthesis_time unchanged, sends no event and
\* starts no synthesis: the worker is back at queue.get().
C37_NoTextNoEffect ==
  [][\A t \in Tasks, o \in {"error", "empty"} :
       WorkerGet(t, o)
         => /\ UNCHANGED <<buffer, history, lastSynth, events>>
            /\ UNCHANGED <<nAttempts, ctx>>
            /\ tpc' = tpc]_vars

\* a chunk without text has been dequeued behind two with text: the buffer
\* holds the two
C37_Witness ==
  /\ Len(handled) = 3 /\ Len(buffer) = 2
  /\ Ids(buffer) = {handled[1], handled[2]}
  /\ nAttempts = 0
  /\ \E t \in Tasks : tpc[t] = "get" /\ tChunk[t] = NoChunk

\* ------------------------- optimized_main.py: the distance of two passes
\* C38: after a successful synthesis a worker triggers the next one only
\* when at least two further transcripts have been appended: the two newest
\* entries of the buffer were input of no successful pass.  So a worker never
\* synthesizes on two consecutive tasks, whatever keywords they hold.
C38_TwoFurtherEntries ==
  [][\A t \in Tasks :
       (EvalStep(t) /\ Triggered /\ synthesized # {})
         => /\ Len(buffer) >= MinBufferSize
            /\ buffer[Len(buffer)].id \notin synthesized
            /\ buffer[Len(buffer) - 1].id \notin synthesized]_vars

\* a worker's pass has started on the entry kept by a synthesis and two new
\* ones, every one of them with a transition keyword
C38_Witness ==
  \E t \in Tasks :
    /\ tpc[t] = "syn_call" /\ Len(tPass[t].buf0) = MinBufferSize
    /\ \A k \in DOMAIN tPass[t].buf0 : tPass[t].buf0[k].marker
    /\ tPass[t].buf0[1].id \in synthesized
    /\ tPass[t].buf0[2].id \notin synthesized
    /\ tPass[t].buf0[3].id \notin synthesized

\* ------------------------------- optimized_main.py: the chunk numbers
\* the chunk_number of the transcription events sent on websocket w, in order
RECURSIVE ChunkNumbers(_)
ChunkNumbers(evs) ==
  IF evs = <<>>
    THEN <<>>
    ELSE IF Head(evs).type = "transcription"
           THEN <<Head(evs).n>> \o ChunkNumbers(Tail(evs))
           ELSE ChunkNumbers(Tail(evs))

\* C39: on a connection the chunk_number of successive transcription events
\* is strictly increasing, across synthesis passes too.
C39_ChunkNumbersIncrease ==
  \A w \in Conns :
    LET ns == ChunkNumbers(events[w]) IN
    \A k \in DOMAIN ns : k > 1 => ns[k - 1] < ns[k]

\* ---------------------------- real_main.py: the queue and task entries
\* the workers that have been created and have not returned
RealLive == {w \in RWorkers : rpc[w] \notin {"none", "done"}}

\* processing_queues and processing_tasks have an entry together, the
\* entry's worker serves the entry's queue and is the only worker
EntriesPaired ==
  /\ (rQEntry = 0) = (rTEntry = 0)
  /\ rTEntry = rQEntry
  /\ RealLive = (IF rTEntry = 0 THEN {} ELSE {rTEntry})

\* C40: whenever control is back in the event loop, processing_queues has
\* an entry for the lecture exactly when processing_tasks has one, and that
\* entry's worker is the only worker; the entries are removed only by that
\* worker, with recording off and its queue empty; a chunk enqueued when
\* there is no entry gets a new queue with a new worker.
C40_QueueAndTask ==
  [][/\ EntriesPaired /\ EntriesPaired'
     /\ (rQEntry # 0 /\ rQEntry' = 0)
          => /\ rTEntry' = 0 /\ rpc'[rQEntry] = "done"
             /\ rRec' # "on" /\ rQs'[rQEntry] = <<>>
     /\ (rQEntry = 0 /\ rQEntry' # 0)
          => /\ rQEntry' = rNWorkers + 1 /\ rpc[rQEntry'] = "none"
             /\ rpc'[rQEntry'] = "new" /\ Len(rQs'[rQEntry']) = 1]_vars

\* the first worker has drained its queue and removed the entries; a chunk
\* uploaded afterwards is on the queue of a second worker
C40_Witness ==
  /\ rpc[1] = "done" /\ rQEntry = 2 /\ rTEntry = 2
  /\ rpc[2] # "none" /\ rQs[2] # <<>>

=============================================================================
